---- MODULE Spec2Model ----
(***************************************************************************)
(* A model of the pitipaw e-commerce admin backend (Proy-1/back).          *)
(*                                                                         *)
(* The repository holds five near-duplicate revisions of one HTTP/JSON     *)
(* server over two MongoDB collections (products, admins):                 *)
(*   "pure"    src/backend/main-pure.go       hand-rolled net/http router  *)
(*   "gin"     src/backend/main.go:852-1432   gin, ProductInput/AdminInput *)
(*   "paseto"  src/backend/main.go:1-793      gin, paseto token, cloudinary*)
(*   "modular" src/config/env.go:93-271, src/controllers, src/routes       *)
(*   "draft"   src/unnamed/part_006           gin, plaintext passwords     *)
(* The deployed revision is fixed at start-up (variable rev); every        *)
(* request handler of every revision is one action.                        *)
(*                                                                         *)
(* Modelling conventions                                                   *)
(*  - A collection is the sequence of its documents in insertion order;    *)
(*    FindOne without a sort returns the first match of a collection scan. *)
(*  - ObjectIDs are positive integers handed out by a counter; the path    *)
(*    parameter 0 stands for a string that is not 24 hex digits.           *)
(*  - A JSON body is the set of keys it carries plus the value of each     *)
(*    key (the Go zero value for a key it does not carry).                 *)
(*  - Of the product fields name, price, stock, image_url, image_base64,   *)
(*    created_at and updated_at are modelled; the others (description,     *)
(*    category, image) are copied unvalidated exactly like stock.  Request *)
(*    bodies carry no id and no timestamp.                                 *)
(*  - A stored password is the text it was derived from, whether it went   *)
(*    through bcrypt, and the salt bcrypt drew.  Passwords are at most 72  *)
(*    bytes, so bcrypt.GenerateFromPassword does not fail.                 *)
(***************************************************************************)
EXTENDS Integers, Sequences, FiniteSets, TLC

VARIABLES
    rev,        \* the revision that is running
    products,   \* collection "products": Seq of documents
    admins,     \* collection "admins": Seq of documents
    files,      \* names written under the upload directory
    nextPid,    \* next ObjectID the driver generates for a product
    nextAid,    \* next ObjectID the driver generates for an admin
    resp,       \* the last request and its response
    created,    \* history: id -> name and price sent to a successful product create,
                \*          dropped when the product is updated or deleted
    removed,    \* history: product ids a DELETE answered 200 for
    supplied,   \* history: admin id -> password given when it was created
    registered, \* history: admin ids a register call answered 201 for
    pending,    \* connection -> the request being served on it and how far its
                \*               handler has got
    cld         \* whether an image host is configured (the cloudinary client is not nil)

vars == <<rev, products, admins, files, nextPid, nextAid, resp,
          created, removed, supplied, registered, pending, cld>>

-----------------------------------------------------------------------------
(* Bounds of the model *)

MaxProducts == 2
MaxAdmins == 2
MaxFiles == 2
\* Requests net/http serves at the same time, each on a goroutine of its own.
MaxClients == 2

(* Program constants *)

StatusOK == 200
StatusCreated == 201
StatusBadRequest == 400
StatusUnauthorized == 401
StatusNotFound == 404
StatusConflict == 409
StatusInternalServerError == 500

Revs == {"pure", "gin", "paseto", "modular", "draft"}

-----------------------------------------------------------------------------
(* Request inputs *)

ProductFields == {"name", "price", "stock"}
Names == {"", "w"}
Prices == {-1, 0, 5}
Stocks == {0, 2}
\* An image reference a client sends, and an inline base64 image.
ImageURLs == {"", "u"}
Payloads == {"", "img"}

\* The server's clock when a handler calls time.Now(); 0 is the zero time.Time.
Instants == {1, 2}
\* The clock of the specifications that do not follow timestamps.
Started == {1}
\* Whether a call to the image host succeeds; the host of the specifications
\* that send no inline image.
Outcomes == BOOLEAN
HostUp == {TRUE}

\* A JSON object for a product: the keys present and their values.  No body
\* carries created_at or updated_at.
BodiesNaming(K) ==
    [keys : {K},
     name : IF "name" \in K THEN Names ELSE {""},
     price : IF "price" \in K THEN Prices ELSE {0},
     stock : IF "stock" \in K THEN Stocks ELSE {0},
     image_url : IF "image_url" \in K THEN ImageURLs ELSE {""},
     image_base64 : IF "image_base64" \in K THEN Payloads ELSE {""}]

\* The bodies the product specification sends.  A create handler decodes the
\* body into a struct, where a missing key and a zero value are the same, so one
\* body per decoded struct is sent; an update is sent every choice of keys.
NamePriceBodies == UNION {BodiesNaming(K) : K \in SUBSET {"name", "price"}}
CreateBodies == { b \in NamePriceBodies : b.keys = {"name", "price"} }
UpdateBodies == NamePriceBodies

\* Path parameters: 0 is not a hex ObjectID, the others are.
ProductPathIds == 0 .. MaxProducts
AdminPathIds == 0 .. MaxAdmins

-----------------------------------------------------------------------------
(* The database driver *)

\* primitive.ObjectIDFromHex: err != nil exactly for a malformed string.
ObjectIDFromHex(id) == [err |-> id < 1, oid |-> id]

\* Indexes of the documents of coll that a bson.M equality filter selects.
Matching(coll, filter) ==
    { i \in 1 .. Len(coll) : \A k \in DOMAIN filter : coll[i][k] = filter[k] }

Min(S) == CHOOSE x \in S : \A y \in S : x <= y

\* collection.FindOne(filter): the first match; found = FALSE is ErrNoDocuments.
FindOne(coll, filter) ==
    LET hits == Matching(coll, filter)
    IN IF hits = {} THEN [found |-> FALSE, at |-> 0]
       ELSE [found |-> TRUE, at |-> Min(hits)]

\* collection.InsertOne(doc)
InsertOne(coll, doc) == Append(coll, doc)

RECURSIVE Without(_, _)
Without(coll, i) ==
    IF coll = <<>> THEN <<>>
    ELSE IF i = 1 THEN Tail(coll)
    ELSE <<Head(coll)>> \o Without(Tail(coll), i - 1)

\* collection.DeleteOne({_id: oid}): removes the first match, reports DeletedCount.
\* A delete that reports the match but leaves the document in place.
DeleteNone(coll, oid) ==
    [coll |-> coll,
     DeletedCount |-> IF \E i \in DOMAIN coll : coll[i].id = oid THEN 1 ELSE 0]

DeleteOne(coll, oid) ==
    LET r == FindOne(coll, [id |-> oid])
    IN IF r.found THEN [coll |-> Without(coll, r.at), DeletedCount |-> 1]
       ELSE [coll |-> coll, DeletedCount |-> 0]

-----------------------------------------------------------------------------
(* Connections *)

Clients == 1 .. MaxClients

\* A connection with no request on it, and one whose handler has issued some
\* of its database calls for the request req and has seen their results.
Idle == [pc |-> "idle", req |-> <<>>, seen |-> <<>>]
Held(pc, req, seen) == [pc |-> pc, req |-> req, seen |-> seen]

-----------------------------------------------------------------------------
(* Responses *)

NoProducts == <<>>
NoAdmins == <<>>
NoToken == {}
NoStats == [fields |-> {}, total_products |-> 0, total_admins |-> 0, total_value |-> 0]

\* A response, with the database operations the handler issued before it
\* answered (none until After records them).
Resp(op, req, status, prods, adms, toks) ==
    [op |-> op, req |-> req, status |-> status,
     products |-> prods, admins |-> adms, tokens |-> toks, stats |-> NoStats,
     calls |-> <<>>]

Error(op, req, status) == Resp(op, req, status, NoProducts, NoAdmins, NoToken)

\* The response r of a handler that issued the database operations ops.
After(ops, r) == [r EXCEPT !.calls = ops]

\* A database call as a handler's record of calls shows it: its name, followed
\* by "error" when the driver returned an error or the context timed out.
Done(name, ok) == IF ok THEN <<name>> ELSE <<name, "error">>

-----------------------------------------------------------------------------
(* Products *)

\* Decoding a stored document into the revision's Product struct: a field the
\* document lacks decodes to its zero value.
Decode(d) ==
    [id |-> d.id,
     name |-> IF "name" \in d.keys THEN d.name ELSE "",
     price |-> IF "price" \in d.keys THEN d.price ELSE 0,
     stock |-> IF "stock" \in d.keys THEN d.stock ELSE 0,
     image_url |-> IF "image_url" \in d.keys THEN d.image_url ELSE "",
     created_at |-> IF "created_at" \in d.keys THEN d.created_at ELSE 0,
     updated_at |-> IF "updated_at" \in d.keys THEN d.updated_at ELSE 0]

\* bson marshalling of main-pure.go's Product{Name, Price, Description,
\* ImageURL}: no stock field, no timestamps; image_url is written even when
\* it is empty.
PlainProduct(oid, input) ==
    [id |-> oid, keys |-> {"name", "price", "image_url"},
     name |-> input.name, price |-> input.price, stock |-> 0,
     image_url |-> input.image_url, image_base64 |-> "",
     created_at |-> 0, updated_at |-> 0]

\* The revisions whose Product struct has ImageURL and ImageBase64 fields and
\* whose handlers upload an inline image.
ImageRevs == {"paseto", "modular"}

\* c.ShouldBindJSON into the revision's Product struct: a field the body does
\* not name keeps its zero value, a key the struct has no field for is
\* dropped (part_006 has neither ImageURL nor ImageBase64).
Bind(b) ==
    [keys |-> b.keys, name |-> b.name, price |-> b.price, stock |-> b.stock,
     image_url |-> IF rev \in ImageRevs THEN b.image_url ELSE "",
     image_base64 |-> IF rev \in ImageRevs THEN b.image_base64 ELSE "",
     created_at |-> 0, updated_at |-> 0]

\* A struct whose tags would write every field, image_url included.
EveryKey(p) == {"name", "price", "stock", "image_url", "created_at", "updated_at"}

\* The keys bson writes for a models.Product value: image_url is omitempty,
\* image_base64 is bson:"-", every other field is written, zero or not.
StructKeys(p) ==
    {"name", "price", "stock", "created_at", "updated_at"}
        \cup (IF p.image_url # "" THEN {"image_url"} ELSE {})

\* bson marshalling of the Product value p for InsertOne.
StructProduct(oid, p) ==
    [id |-> oid, keys |-> StructKeys(p), name |-> p.name, price |-> p.price,
     stock |-> p.stock, image_url |-> p.image_url, image_base64 |-> "",
     created_at |-> p.created_at, updated_at |-> p.updated_at]

\* An upload that reports success whatever the host answered.
UploadUnchecked(payload, ok) ==
    [err |-> FALSE, SecureURL |-> IF ok THEN "https://res.cloudinary.com/img" ELSE ""]

\* Cld.Upload.Upload(ctx, payload, params): the secure URL, or an error.
Upload(payload, ok) ==
    [err |-> ~ ok, SecureURL |-> IF ok THEN "https://res.cloudinary.com/img" ELSE ""]

\* The image branch of createProduct and updateProduct: an inline image is
\* uploaded when a host is configured and its URL replaces image_url.
WithImage(p, ok) ==
    IF p.image_base64 # "" /\ cld
    THEN LET up == Upload(p.image_base64, ok)
         IN [calls |-> Done("Upload", ok), err |-> up.err,
             product |-> IF up.err THEN p ELSE [p EXCEPT !.image_url = up.SecureURL]]
    ELSE [calls |-> <<>>, err |-> FALSE, product |-> p]

\* History kept for the create/get/delete round trip.
NoteCreated(oid, b) ==
    /\ created' = [i \in DOMAIN created \cup {oid} |->
                      IF i = oid THEN [name |-> b.name, price |-> b.price]
                      ELSE created[i]]
    /\ removed' = removed

NoteChanged(oid) ==
    /\ created' = [i \in DOMAIN created \ {oid} |-> created[i]]
    /\ removed' = removed

NoteRemoved(oid) ==
    /\ created' = [i \in DOMAIN created \ {oid} |-> created[i]]
    /\ removed' = removed \cup {oid}

AdminsUntouched == UNCHANGED <<admins, nextAid, supplied, registered>>
ProductsUntouched == UNCHANGED <<products, nextPid, created, removed>>

\* A create handler that validated and inserted, after the calls ops.
Inserted(op, b, doc, ops) ==
    /\ nextPid <= MaxProducts
    /\ products' = InsertOne(products, doc)
    /\ nextPid' = nextPid + 1
    /\ resp' = After(ops \o <<"InsertOne">>,
                   Resp(op, b, StatusCreated, <<Decode(doc)>>, NoAdmins, NoToken))
    /\ NoteCreated(doc.id, b)

\* A handler that answered without touching the products collection.
Answered(r) ==
    /\ resp' = r
    /\ ProductsUntouched

\* main-pure.go createProduct
createProduct_pure(b) ==
    /\ rev = "pure"
    /\ UNCHANGED <<rev, cld, files, pending>> /\ AdminsUntouched
    /\ IF b.name = "" \/ b.price <= 0
       THEN Answered(Error("createProduct", b, StatusBadRequest))
       ELSE Inserted("createProduct", b, PlainProduct(nextPid, b), <<>>)

\* binding:"required" of gin's validator: fails on the zero value of the field.
Required(v, zero) == v # zero

\* main.go (gin revision) createProduct with ProductInput
createProduct_gin(b) ==
    /\ rev = "gin"
    /\ UNCHANGED <<rev, cld, files, pending>> /\ AdminsUntouched
    /\ IF ~ (Required(b.name, "") /\ Required(b.price, 0))
       THEN Answered(Error("createProduct", b, StatusBadRequest))
       ELSE Inserted("createProduct", b, PlainProduct(nextPid, b), <<>>)

\* createProduct of the struct-binding revisions: no validation; the image
\* branch, the timestamps, the blanking of image_base64, then InsertOne.
CreateByStruct(b, now, ok) ==
    LET img == WithImage(Bind(b), ok)
        product == [img.product EXCEPT !.created_at = now, !.updated_at = now,
                                       !.image_base64 = ""]
    IN IF img.err
       THEN Answered(After(img.calls, Error("createProduct", b, StatusInternalServerError)))
       ELSE Inserted("createProduct", b, StructProduct(nextPid, product), img.calls)

\* main.go (paseto revision) createProduct
createProduct_paseto(b, now, ok) ==
    /\ rev = "paseto"
    /\ UNCHANGED <<rev, cld, files, pending>> /\ AdminsUntouched
    /\ CreateByStruct(b, now, ok)

\* controllers/product.controller.go Controller.CreateProduct
CreateProduct_ctrl(b, now, ok) ==
    /\ rev = "modular"
    /\ UNCHANGED <<rev, cld, files, pending>> /\ AdminsUntouched
    /\ CreateByStruct(b, now, ok)

\* part_006 createProduct: no image branch.
createProduct_draft(b, now) ==
    /\ rev = "draft"
    /\ UNCHANGED <<rev, cld, files, pending>> /\ AdminsUntouched
    /\ Inserted("createProduct", b,
           StructProduct(nextPid, [Bind(b) EXCEPT !.created_at = now, !.updated_at = now]),
           <<>>)

-----------------------------------------------------------------------------
(* Get / Update / Delete of one product *)

\* getProduct, the same in every revision: 400 on a malformed id, 404 when
\* FindOne reports ErrNoDocuments, else the decoded document.
\* A get handler that queries with whatever the path holds and reports a
\* malformed id as a missing document.
GetProductUnparsed(id) ==
    LET r == FindOne(products, [id |-> id])
    IN IF ~ r.found THEN After(<<"FindOne">>, Error("getProduct", [id |-> id], StatusNotFound))
       ELSE After(<<"FindOne">>,
                Resp("getProduct", [id |-> id], StatusOK, <<Decode(products[r.at])>>, NoAdmins, NoToken))

GetProductResponse(id) ==
    LET h == ObjectIDFromHex(id)
        r == FindOne(products, [id |-> h.oid])
    IN IF h.err THEN Error("getProduct", [id |-> id], StatusBadRequest)
       ELSE IF ~ r.found THEN After(<<"FindOne">>, Error("getProduct", [id |-> id], StatusNotFound))
       ELSE After(<<"FindOne">>,
                Resp("getProduct", [id |-> id], StatusOK, <<Decode(products[r.at])>>, NoAdmins, NoToken))

getProduct_pure(id) ==
    /\ rev = "pure"
    /\ UNCHANGED <<rev, cld, files, pending>> /\ AdminsUntouched
    /\ Answered(GetProductResponse(id))

getProduct_gin(id) ==
    /\ rev = "gin"
    /\ UNCHANGED <<rev, cld, files, pending>> /\ AdminsUntouched
    /\ Answered(GetProductResponse(id))

getProduct_paseto(id) ==
    /\ rev = "paseto"
    /\ UNCHANGED <<rev, cld, files, pending>> /\ AdminsUntouched
    /\ Answered(GetProductResponse(id))

GetProduct_ctrl(id) ==
    /\ rev = "modular"
    /\ UNCHANGED <<rev, cld, files, pending>> /\ AdminsUntouched
    /\ Answered(GetProductResponse(id))

getProduct_draft(id) ==
    /\ rev = "draft"
    /\ UNCHANGED <<rev, cld, files, pending>> /\ AdminsUntouched
    /\ Answered(GetProductResponse(id))

\* A $set that replaces the stored document by the one sent, its id kept.
SetAll(d, b) ==
    [id |-> d.id,
     keys |-> b.keys,
     name |-> IF "name" \in b.keys THEN b.name ELSE "",
     price |-> IF "price" \in b.keys THEN b.price ELSE 0,
     stock |-> IF "stock" \in b.keys THEN b.stock ELSE 0,
     image_url |-> IF "image_url" \in b.keys THEN b.image_url ELSE "",
     image_base64 |-> IF "image_base64" \in b.keys THEN b.image_base64 ELSE "",
     created_at |-> IF "created_at" \in b.keys THEN b.created_at ELSE 0,
     updated_at |-> IF "updated_at" \in b.keys THEN b.updated_at ELSE 0]

\* {"$set": input} with input a decoded JSON object: only the keys it carries.
SetKeys(d, b) ==
    [id |-> d.id,
     keys |-> d.keys \cup b.keys,
     name |-> IF "name" \in b.keys THEN b.name ELSE d.name,
     price |-> IF "price" \in b.keys THEN b.price ELSE d.price,
     stock |-> IF "stock" \in b.keys THEN b.stock ELSE d.stock,
     image_url |-> IF "image_url" \in b.keys THEN b.image_url ELSE d.image_url,
     image_base64 |->
         IF "image_base64" \in b.keys THEN b.image_base64 ELSE d.image_base64,
     created_at |-> IF "created_at" \in b.keys THEN b.created_at ELSE d.created_at,
     updated_at |-> IF "updated_at" \in b.keys THEN b.updated_at ELSE d.updated_at]

\* A $set of a struct whose fields were all tagged omitempty with pointer
\* types: only the fields the body named.
KeepKeys(b) == b

\* The revisions whose updateProduct decodes the body into a map.
MapRevs == {"pure", "gin"}

\* updateData as a Product struct: bson marshals the fields its tags name.
StructSet(b) == [b EXCEPT !.keys = StructKeys(b)]

\* An update with options.Update().SetUpsert(true): a filter that matches
\* nothing inserts a document made of the filter and the $set.
UpdateOneUpsert(coll, oid, set) ==
    LET r == FindOne(coll, [id |-> oid])
        fresh == [id |-> oid, keys |-> {}, name |-> "", price |-> 0, stock |-> 0,
                  image_url |-> "", image_base64 |-> "", created_at |-> 0,
                  updated_at |-> 0]
    IN IF r.found
       THEN [coll |-> [coll EXCEPT ![r.at] = SetKeys(coll[r.at], set)], MatchedCount |-> 1]
       ELSE [coll |-> Append(coll, SetKeys(fresh, set)), MatchedCount |-> 0]

\* collection.UpdateOne({_id: oid}, {"$set": set}), no options: no upsert.
UpdateOne(coll, oid, set) ==
    LET r == FindOne(coll, [id |-> oid])
    IN IF r.found
       THEN [coll |-> [coll EXCEPT ![r.at] = SetKeys(coll[r.at], set)], MatchedCount |-> 1]
       ELSE [coll |-> coll, MatchedCount |-> 0]

\* An update handler after its UpdateOne: the collection is what the driver
\* left, whatever the handler answers.
Updated(oid, coll, r) ==
    /\ products' = coll
    /\ nextPid' = nextPid
    /\ resp' = r
    /\ NoteChanged(oid)

\* updateProduct of main-pure.go and of the gin revision: map body, partial $set,
\* answers with the document read back.
UpdateByMap(id, b) ==
    LET h == ObjectIDFromHex(id)
        req == [id |-> id, body |-> b]
        u == UpdateOne(products, h.oid, b)
        at == FindOne(u.coll, [id |-> h.oid]).at
    IN IF h.err THEN Answered(Error("updateProduct", req, StatusBadRequest))
       ELSE IF b.keys = {} THEN Answered(Error("updateProduct", req, StatusBadRequest))
       ELSE IF u.MatchedCount = 0
       THEN Updated(h.oid, u.coll,
                After(<<"UpdateOne">>, Error("updateProduct", req, StatusNotFound)))
       ELSE Updated(h.oid, u.coll,
                After(<<"UpdateOne", "FindOne">>,
                    Resp("updateProduct", req, StatusOK, <<Decode(u.coll[at])>>,
                         NoAdmins, NoToken)))

\* updateProduct of the struct-binding revisions: the image branch, then a
\* $set of the bound struct with updated_at set and image_base64 blanked.
UpdateByStruct(id, b, now, ok) ==
    LET h == ObjectIDFromHex(id)
        req == [id |-> id, body |-> b]
        img == WithImage(Bind(b), ok)
        updateData == [img.product EXCEPT !.updated_at = now, !.image_base64 = ""]
        u == UpdateOne(products, h.oid, StructSet(updateData))
    IN IF h.err THEN Answered(Error("updateProduct", req, StatusBadRequest))
       ELSE IF img.err
       THEN Answered(After(img.calls,
                Error("updateProduct", req, StatusInternalServerError)))
       ELSE IF u.MatchedCount = 0
       THEN Updated(h.oid, u.coll,
                After(img.calls \o <<"UpdateOne">>,
                    Error("updateProduct", req, StatusNotFound)))
       ELSE Updated(h.oid, u.coll,
                After(img.calls \o <<"UpdateOne">>,
                    Resp("updateProduct", req, StatusOK, NoProducts, NoAdmins, NoToken)))

updateProduct_pure(id, b) ==
    /\ rev = "pure"
    /\ UNCHANGED <<rev, cld, files, pending>> /\ AdminsUntouched
    /\ UpdateByMap(id, b)

updateProduct_gin(id, b) ==
    /\ rev = "gin"
    /\ UNCHANGED <<rev, cld, files, pending>> /\ AdminsUntouched
    /\ UpdateByMap(id, b)

updateProduct_paseto(id, b, now, ok) ==
    /\ rev = "paseto"
    /\ UNCHANGED <<rev, cld, files, pending>> /\ AdminsUntouched
    /\ UpdateByStruct(id, b, now, ok)

UpdateProduct_ctrl(id, b, now, ok) ==
    /\ rev = "modular"
    /\ UNCHANGED <<rev, cld, files, pending>> /\ AdminsUntouched
    /\ UpdateByStruct(id, b, now, ok)

\* part_006 updateProduct: its Product has no image fields, so Bind leaves
\* nothing to upload.
updateProduct_draft(id, b, now) ==
    /\ rev = "draft"
    /\ UNCHANGED <<rev, cld, files, pending>> /\ AdminsUntouched
    /\ UpdateByStruct(id, b, now, TRUE)

\* deleteProduct, the same in every revision.
\* A delete handler that does not look at DeletedCount.
DeleteProductUnchecked(id) ==
    LET h == ObjectIDFromHex(id)
        r == DeleteOne(products, h.oid)
    IN IF h.err THEN Answered(Error("deleteProduct", [id |-> id], StatusBadRequest))
       ELSE /\ products' = r.coll
            /\ nextPid' = nextPid
            /\ resp' = After(<<"DeleteOne">>, Error("deleteProduct", [id |-> id], StatusOK))
            /\ NoteRemoved(h.oid)

DeleteProductById(id) ==
    LET h == ObjectIDFromHex(id)
        r == DeleteOne(products, h.oid)
    IN IF h.err THEN Answered(Error("deleteProduct", [id |-> id], StatusBadRequest))
       ELSE IF r.DeletedCount = 0
       THEN Answered(After(<<"DeleteOne">>, Error("deleteProduct", [id |-> id], StatusNotFound)))
       ELSE /\ products' = r.coll
            /\ nextPid' = nextPid
            /\ resp' = After(<<"DeleteOne">>, Error("deleteProduct", [id |-> id], StatusOK))
            /\ NoteRemoved(h.oid)

deleteProduct_pure(id) ==
    /\ rev = "pure"
    /\ UNCHANGED <<rev, cld, files, pending>> /\ AdminsUntouched
    /\ DeleteProductById(id)

deleteProduct_gin(id) ==
    /\ rev = "gin"
    /\ UNCHANGED <<rev, cld, files, pending>> /\ AdminsUntouched
    /\ DeleteProductById(id)

deleteProduct_paseto(id) ==
    /\ rev = "paseto"
    /\ UNCHANGED <<rev, cld, files, pending>> /\ AdminsUntouched
    /\ DeleteProductById(id)

DeleteProduct_ctrl(id) ==
    /\ rev = "modular"
    /\ UNCHANGED <<rev, cld, files, pending>> /\ AdminsUntouched
    /\ DeleteProductById(id)

deleteProduct_draft(id) ==
    /\ rev = "draft"
    /\ UNCHANGED <<rev, cld, files, pending>> /\ AdminsUntouched
    /\ DeleteProductById(id)

-----------------------------------------------------------------------------
(* Admins: passwords *)

\* The salts bcrypt may draw: two are enough to tell one hash of a password from another.
Salts == {1, 2}

\* The password field of a stored or returned admin.
Plain(text) == [bcrypt |-> FALSE, salt |-> 0, text |-> text]
Blank == Plain("")

\* A creation path that keeps the password as sent.
StoreAsSent(text, salt) == Plain(text)

\* bcrypt.GenerateFromPassword(password, DefaultCost) with the salt it drew.
GenerateFromPassword(text, salt) == [bcrypt |-> TRUE, salt |-> salt, text |-> text]

\* A comparison that accepts any password for a well-formed hash.
CompareFormatOnly(stored, text) == stored.bcrypt

\* bcrypt.CompareHashAndPassword(stored, password) = nil: the stored string must
\* parse as a bcrypt hash and be the hash of the password under its own salt.
CompareHashAndPassword(stored, text) ==
    stored.bcrypt /\ stored = GenerateFromPassword(text, stored.salt)

(* Admins: requests and documents *)

Usernames == {"", "a", "b"}
Passwords == {"", "p", "q"}
Emails == {"", "e"}
AdminBodies == [username : Usernames, email : Emails, password : Passwords]
\* Bodies of AdminInput, LoginInput and LoginRequest, which have no email field.
CredentialBodies == {b \in AdminBodies : b.email = ""}
\* The requests the specifications create admins with: the password "q" is
\* kept for logins with a wrong password.
AdminInputs == {b \in CredentialBodies : b.password # "q"}
NewAdminBodies == {b \in AdminBodies : b.email = "e" /\ b.password # "q"}
RegisterBodies ==
    NewAdminBodies \cup
        {b \in AdminBodies : b.username = "a" /\ b.email = "" /\ b.password = "p"}

AdminDoc(oid, username, email, password) ==
    [id |-> oid, username |-> username, email |-> email, password |-> password]

\* A view that keeps the stored password field.
AdminViewStored(d, password) ==
    [id |-> d.id, username |-> d.username, email |-> d.email, password |-> d.password]

\* An admin as a response shows it, with whatever password field it is given.
AdminView(d, password) ==
    [id |-> d.id, username |-> d.username, email |-> d.email, password |-> password]

\* History of admin creation.
NoteAdmin(oid, text, byRegister) ==
    /\ supplied' = [i \in DOMAIN supplied \cup {oid} |->
                       IF i = oid THEN text ELSE supplied[i]]
    /\ registered' = IF byRegister THEN registered \cup {oid} ELSE registered

NoteAdminRemoved(oid) ==
    /\ supplied' = [i \in DOMAIN supplied \ {oid} |-> supplied[i]]
    /\ registered' = registered \ {oid}

\* A handler that answered without touching the admins collection.
AnsweredAdmin(r) ==
    /\ resp' = r
    /\ AdminsUntouched

\* A handler that inserted an admin document and answered 201 with a view of it.
InsertedAdmin(op, b, doc, byRegister, ops) ==
    /\ nextAid <= MaxAdmins
    /\ admins' = InsertOne(admins, doc)
    /\ nextAid' = nextAid + 1
    /\ resp' = After(ops \o <<"InsertOne">>,
                   Resp(op, b, StatusCreated, NoProducts, <<AdminView(doc, Blank)>>, NoToken))
    /\ NoteAdmin(doc.id, b.password, byRegister)

UsernameTaken(username) == FindOne(admins, [username |-> username]).found

\* createAdmin of main-pure.go and of the gin revision, which also serves
\* /api/register: presence check, existence query, bcrypt, insert.
\* AdminInput has no email: the document is stored without one.
CreateHashedAdmin(op, b, salt, byRegister) ==
    IF b.username = "" \/ b.password = ""
    THEN AnsweredAdmin(Error(op, b, StatusBadRequest))
    ELSE IF UsernameTaken(b.username)
    THEN AnsweredAdmin(After(<<"FindOne">>, Error(op, b, StatusBadRequest)))
    ELSE InsertedAdmin(op, b,
             AdminDoc(nextAid, b.username, "", GenerateFromPassword(b.password, salt)),
             byRegister, <<"FindOne">>)

createAdmin_pure(b, salt) ==
    /\ rev = "pure"
    /\ UNCHANGED <<rev, cld, files, pending>> /\ ProductsUntouched
    /\ CreateHashedAdmin("createAdmin", b, salt, FALSE)

registerHandler_pure(b, salt) ==
    /\ rev = "pure"
    /\ UNCHANGED <<rev, cld, files, pending>> /\ ProductsUntouched
    /\ CreateHashedAdmin("register", b, salt, TRUE)

createAdmin_gin(b, salt) ==
    /\ rev = "gin"
    /\ UNCHANGED <<rev, cld, files, pending>> /\ ProductsUntouched
    /\ CreateHashedAdmin("createAdmin", b, salt, FALSE)

registerAdmin_gin(b, salt) ==
    /\ rev = "gin"
    /\ UNCHANGED <<rev, cld, files, pending>> /\ ProductsUntouched
    /\ CreateHashedAdmin("register", b, salt, TRUE)

\* createAdmin of the paseto revision: binds Admin (no binding tags) and inserts
\* it as bound, the password as sent.
createAdmin_paseto(b) ==
    /\ rev = "paseto"
    /\ UNCHANGED <<rev, cld, files, pending>> /\ ProductsUntouched
    /\ InsertedAdmin("createAdmin", b,
           AdminDoc(nextAid, b.username, b.email, Plain(b.password)), FALSE, <<>>)

\* part_006 createAdmin: the same.
createAdmin_draft(b) ==
    /\ rev = "draft"
    /\ UNCHANGED <<rev, cld, files, pending>> /\ ProductsUntouched
    /\ InsertedAdmin("createAdmin", b,
           AdminDoc(nextAid, b.username, b.email, Plain(b.password)), FALSE, <<>>)

\* Controller.CreateAdmin: binds Admin (no binding tags), hashes, inserts; no
\* existence query.
CreateAdmin_ctrl(b, salt) ==
    /\ rev = "modular"
    /\ UNCHANGED <<rev, cld, files, pending>> /\ ProductsUntouched
    /\ InsertedAdmin("createAdmin", b,
           AdminDoc(nextAid, b.username, b.email, GenerateFromPassword(b.password, salt)),
           FALSE, <<>>)

\* RegisterRequest: username, email and password are binding:"required".
BindRegisterRequest(b) ==
    Required(b.username, "") /\ Required(b.email, "") /\ Required(b.password, "")

\* register of the paseto revision and Controller.Register.
RegisterHashed(b, salt) ==
    IF ~ BindRegisterRequest(b)
    THEN AnsweredAdmin(Error("register", b, StatusBadRequest))
    ELSE IF UsernameTaken(b.username)
    THEN AnsweredAdmin(After(<<"FindOne">>, Error("register", b, StatusConflict)))
    ELSE InsertedAdmin("register", b,
             AdminDoc(nextAid, b.username, b.email, GenerateFromPassword(b.password, salt)),
             TRUE, <<"FindOne">>)

register_paseto(b, salt) ==
    /\ rev = "paseto"
    /\ UNCHANGED <<rev, cld, files, pending>> /\ ProductsUntouched
    /\ RegisterHashed(b, salt)

Register_ctrl(b, salt) ==
    /\ rev = "modular"
    /\ UNCHANGED <<rev, cld, files, pending>> /\ ProductsUntouched
    /\ RegisterHashed(b, salt)

\* part_006 register: the password is stored as sent.
register_draft(b) ==
    /\ rev = "draft"
    /\ UNCHANGED <<rev, cld, files, pending>> /\ ProductsUntouched
    /\ IF ~ BindRegisterRequest(b)
       THEN AnsweredAdmin(Error("register", b, StatusBadRequest))
       ELSE IF UsernameTaken(b.username)
       THEN AnsweredAdmin(After(<<"FindOne">>, Error("register", b, StatusConflict)))
       ELSE InsertedAdmin("register", b,
                AdminDoc(nextAid, b.username, b.email, Plain(b.password)), TRUE,
                <<"FindOne">>)

-----------------------------------------------------------------------------
(* Admins: login, list, delete *)

\* LoginRequest / LoginInput: username and password are required (main-pure.go
\* checks them by hand, the gin revisions by binding:"required").
BindLoginRequest(b) == Required(b.username, "") /\ Required(b.password, "")

\* time.Now() when a login builds its token, in hours.
Clock == {0, 1}

\* exp := now.Add(24 * time.Hour)
TokenLifetime == 24

\* A token that names no admin and has expired when it is issued.
UnboundToken(d, now) ==
    [kind |-> "paseto", subject |-> 0, footer |-> "pitipaw-admin",
     issuedAt |-> now, expiration |-> now]

\* paseto.JSONToken{Subject: admin.ID.Hex(), IssuedAt: now, Expiration: exp},
\* encrypted with the footer "pitipaw-admin".
PasetoToken(d, now) ==
    [kind |-> "paseto", subject |-> d.id, footer |-> "pitipaw-admin",
     issuedAt |-> now, expiration |-> now + TokenLifetime]

\* part_006 answers the literal string "dummy_token": no subject, no times.
DummyToken ==
    [kind |-> "dummy_token", subject |-> 0, footer |-> "", issuedAt |-> 0, expiration |-> 0]

\* Login by FindOne({username}) and bcrypt comparison: the status, and where
\* the admin is when the status is 200.
Authenticate(b) ==
    LET r == FindOne(admins, [username |-> b.username])
    IN IF ~ BindLoginRequest(b) THEN [status |-> StatusBadRequest, at |-> 0]
       ELSE IF ~ r.found THEN [status |-> StatusUnauthorized, at |-> 0]
       ELSE IF ~ CompareHashAndPassword(admins[r.at].password, b.password)
       THEN [status |-> StatusUnauthorized, at |-> 0]
       ELSE [status |-> StatusOK, at |-> r.at]

\* main-pure.go loginAdmin: answers {"admin": {"username": ...}}.
LoginBody_pure(b) ==
    LET a == Authenticate(b)
    IN IF a.status = StatusBadRequest THEN Error("login", b, a.status)
       ELSE IF a.status # StatusOK THEN After(<<"FindOne">>, Error("login", b, a.status))
       ELSE After(<<"FindOne">>, Resp("login", b, StatusOK, NoProducts,
                 <<[id |-> 0, username |-> admins[a.at].username,
                    email |-> "", password |-> Blank]>>,
                 NoToken))

loginAdmin_pure(b) ==
    /\ rev = "pure"
    /\ UNCHANGED <<rev, cld, files, pending>> /\ ProductsUntouched
    /\ AnsweredAdmin(LoginBody_pure(b))

\* gin revision loginAdmin: answers {"admin": {"_id", "username"}}.
LoginBody_gin(b) ==
    LET a == Authenticate(b)
    IN IF a.status = StatusBadRequest THEN Error("login", b, a.status)
       ELSE IF a.status # StatusOK THEN After(<<"FindOne">>, Error("login", b, a.status))
       ELSE After(<<"FindOne">>, Resp("login", b, StatusOK, NoProducts,
                 <<[id |-> admins[a.at].id, username |-> admins[a.at].username,
                    email |-> "", password |-> Blank]>>,
                 NoToken))

loginAdmin_gin(b) ==
    /\ rev = "gin"
    /\ UNCHANGED <<rev, cld, files, pending>> /\ ProductsUntouched
    /\ AnsweredAdmin(LoginBody_gin(b))

\* login of the paseto revision and Controller.Login: issue the token and blank
\* admin.Password before the admin is returned.
LoginBody_paseto(b, now) ==
    LET a == Authenticate(b)
    IN IF a.status = StatusBadRequest THEN Error("login", b, a.status)
       ELSE IF a.status # StatusOK THEN After(<<"FindOne">>, Error("login", b, a.status))
       ELSE After(<<"FindOne">>, Resp("login", b, StatusOK, NoProducts,
                 <<AdminView(admins[a.at], Blank)>>, {PasetoToken(admins[a.at], now)}))

login_paseto(b, now) ==
    /\ rev = "paseto"
    /\ UNCHANGED <<rev, cld, files, pending>> /\ ProductsUntouched
    /\ AnsweredAdmin(LoginBody_paseto(b, now))

Login_ctrl(b, now) ==
    /\ rev = "modular"
    /\ UNCHANGED <<rev, cld, files, pending>> /\ ProductsUntouched
    /\ AnsweredAdmin(LoginBody_paseto(b, now))

\* part_006 login: FindOne({username, password}) against the stored string.
LoginBody_draft(b) ==
    LET r == FindOne(admins, [username |-> b.username, password |-> Plain(b.password)])
    IN IF ~ BindLoginRequest(b) THEN Error("login", b, StatusBadRequest)
       ELSE IF ~ r.found THEN After(<<"FindOne">>, Error("login", b, StatusUnauthorized))
       ELSE After(<<"FindOne">>,
                Resp("login", b, StatusOK, NoProducts,
                     <<AdminView(admins[r.at], Blank)>>, {DummyToken}))

login_draft(b) ==
    /\ rev = "draft"
    /\ UNCHANGED <<rev, cld, files, pending>> /\ ProductsUntouched
    /\ AnsweredAdmin(LoginBody_draft(b))

\* POST /api/login as the running revision routes it.
PostLogin(b, now) ==
    CASE rev = "pure" -> LoginBody_pure(b)
      [] rev = "gin" -> LoginBody_gin(b)
      [] rev = "draft" -> LoginBody_draft(b)
      [] OTHER -> LoginBody_paseto(b, now)

\* getAdmins: every admin, the password projected away or blanked.
GetAdminsResponse ==
    After(<<"Find">>,
        Resp("getAdmins", [id |-> 0], StatusOK, NoProducts,
             [i \in 1 .. Len(admins) |-> AdminView(admins[i], Blank)], NoToken))

getAdmins_pure ==
    /\ rev = "pure"
    /\ UNCHANGED <<rev, cld, files, pending>> /\ ProductsUntouched
    /\ AnsweredAdmin(GetAdminsResponse)

getAdmins_gin ==
    /\ rev = "gin"
    /\ UNCHANGED <<rev, cld, files, pending>> /\ ProductsUntouched
    /\ AnsweredAdmin(GetAdminsResponse)

getAdmins_paseto ==
    /\ rev = "paseto"
    /\ UNCHANGED <<rev, cld, files, pending>> /\ ProductsUntouched
    /\ AnsweredAdmin(GetAdminsResponse)

GetAdmins_ctrl ==
    /\ rev = "modular"
    /\ UNCHANGED <<rev, cld, files, pending>> /\ ProductsUntouched
    /\ AnsweredAdmin(GetAdminsResponse)

getAdmins_draft ==
    /\ rev = "draft"
    /\ UNCHANGED <<rev, cld, files, pending>> /\ ProductsUntouched
    /\ AnsweredAdmin(GetAdminsResponse)

\* deleteAdmin, the same in every revision.
DeleteAdminById(id) ==
    LET h == ObjectIDFromHex(id)
        r == DeleteOne(admins, h.oid)
    IN IF h.err THEN AnsweredAdmin(Error("deleteAdmin", [id |-> id], StatusBadRequest))
       ELSE IF r.DeletedCount = 0
       THEN AnsweredAdmin(After(<<"DeleteOne">>, Error("deleteAdmin", [id |-> id], StatusNotFound)))
       ELSE /\ admins' = r.coll
            /\ nextAid' = nextAid
            /\ resp' = After(<<"DeleteOne">>, Error("deleteAdmin", [id |-> id], StatusOK))
            /\ NoteAdminRemoved(h.oid)

deleteAdmin_pure(id) ==
    /\ rev = "pure"
    /\ UNCHANGED <<rev, cld, files, pending>> /\ ProductsUntouched
    /\ DeleteAdminById(id)

deleteAdmin_gin(id) ==
    /\ rev = "gin"
    /\ UNCHANGED <<rev, cld, files, pending>> /\ ProductsUntouched
    /\ DeleteAdminById(id)

deleteAdmin_paseto(id) ==
    /\ rev = "paseto"
    /\ UNCHANGED <<rev, cld, files, pending>> /\ ProductsUntouched
    /\ DeleteAdminById(id)

DeleteAdmin_ctrl(id) ==
    /\ rev = "modular"
    /\ UNCHANGED <<rev, cld, files, pending>> /\ ProductsUntouched
    /\ DeleteAdminById(id)

deleteAdmin_draft(id) ==
    /\ rev = "draft"
    /\ UNCHANGED <<rev, cld, files, pending>> /\ ProductsUntouched
    /\ DeleteAdminById(id)

-----------------------------------------------------------------------------
(* Upload *)

\* A file name is the sequence of its characters.
MaxFileSize == 10 * 1024 * 1024
UploadDir == "static/uploads"
allowedExtensions ==
    {<<"p", "n", "g">>, <<"j", "p", "g">>, <<"j", "p", "e", "g">>, <<"g", "i", "f">>}

Filenames ==
    {<<"a">>, <<"a", ".">>, <<".", "g", "i", "f">>,
     <<"a", ".", "p", "n", "g">>, <<"a", ".", "P", "N", "G">>, <<"a", ".", "J", "p", "g">>,
     <<"a", ".", "j", "p", "e", "g">>, <<"a", ".", "e", "x", "e">>,
     <<"a", ".", "p", "n", "g", ".", "s", "h">>, <<"a", ".", "b", ".", "g", "i", "f">>}
FileSizes == {1, MaxFileSize, MaxFileSize + 1}
UnixTimes == {1700000000, 1700000001}
Uploads == [filename : Filenames, size : FileSizes]

\* strings.Split(s, "."): the pieces between the separators, empty ones included.
RECURSIVE Split(_)
Split(s) ==
    IF \A i \in DOMAIN s : s[i] # "."
    THEN <<s>>
    ELSE LET k == Min({i \in DOMAIN s : s[i] = "."})
         IN <<SubSeq(s, 1, k - 1)>> \o Split(SubSeq(s, k + 1, Len(s)))

\* strings.ToLower on the characters that occur in the file names.
LowerOf(c) ==
    CASE c = "P" -> "p" [] c = "N" -> "n" [] c = "G" -> "g" [] c = "J" -> "j" [] OTHER -> c
ToLower(s) == [i \in DOMAIN s |-> LowerOf(s[i])]

\* os.Create / SaveUploadedFile: the file at that path is created or truncated.
WriteFile(fs, path, size) ==
    {f \in fs : f.path # path} \cup {[path |-> path, size |-> size]}

\* A handler that answered an upload without writing anything.
Refused(u, status) ==
    /\ resp' = Error("upload", u, status)
    /\ UNCHANGED <<files>> /\ ProductsUntouched

\* A handler that saved the upload under the upload directory.
Saved(u, path, status) ==
    /\ Cardinality(WriteFile(files, path, u.size)) <= MaxFiles
    /\ files' = WriteFile(files, path, u.size)
    /\ resp' = Error("upload", u, status)
    /\ ProductsUntouched

\* The size and extension checks of main-pure.go and of the gin revision.
ExtensionAllowed(filename) ==
    LET parts == Split(filename)
    IN Len(parts) >= 2 /\ ToLower(parts[Len(parts)]) \in allowedExtensions

\* main-pure.go uploadHandler: saves under the client's file name.
uploadHandler_pure(u) ==
    /\ rev = "pure"
    /\ UNCHANGED <<rev, cld, pending>> /\ AdminsUntouched
    /\ IF u.size > MaxFileSize THEN Refused(u, StatusBadRequest)
       ELSE IF ~ ExtensionAllowed(u.filename) THEN Refused(u, StatusBadRequest)
       ELSE Saved(u, <<UploadDir, u.filename>>, StatusCreated)

\* uploadImage of the gin revision: saves under "<unix time>_<file name>".
uploadImage_gin(u, now) ==
    /\ rev = "gin"
    /\ UNCHANGED <<rev, cld, pending>> /\ AdminsUntouched
    /\ IF u.size > MaxFileSize THEN Refused(u, StatusBadRequest)
       ELSE IF ~ ExtensionAllowed(u.filename) THEN Refused(u, StatusBadRequest)
       ELSE Saved(u, <<UploadDir, now, u.filename>>, StatusCreated)

\* uploadFile of the paseto revision: size check only, then the bytes are
\* inserted as a new document of the products collection.
uploadFile_paseto(u, now) ==
    /\ rev = "paseto"
    /\ UNCHANGED <<rev, cld, pending>> /\ AdminsUntouched
    /\ IF u.size > MaxFileSize THEN Refused(u, StatusBadRequest)
       ELSE /\ nextPid <= MaxProducts
            /\ products' = InsertOne(products,
                   StructProduct(nextPid,
                       [name |-> u.filename, price |-> 0, stock |-> 0, image_url |-> "",
                        created_at |-> now, updated_at |-> now]))
            /\ nextPid' = nextPid + 1
            /\ resp' = After(<<"InsertOne">>, Error("upload", u, StatusOK))
            /\ UNCHANGED <<files, created, removed>>

\* part_006 uploadFile: size check only, saves under "<unix time>_<file name>".
uploadFile_draft(u, now) ==
    /\ rev = "draft"
    /\ UNCHANGED <<rev, cld, pending>> /\ AdminsUntouched
    /\ IF u.size > MaxFileSize THEN Refused(u, StatusBadRequest)
       ELSE Saved(u, <<UploadDir, now, u.filename>>, StatusOK)

\* routes.SetupRoutes registers no upload route: gin answers 404.
upload_modular(u) ==
    /\ rev = "modular"
    /\ UNCHANGED <<rev, cld, pending>> /\ AdminsUntouched
    /\ Refused(u, StatusNotFound)

-----------------------------------------------------------------------------
(* Register, one database call at a time *)

\* A register handler between its FindOne and its InsertOne: other requests
\* are served meanwhile.  Each revision answers at once when the body does not
\* bind or the username is found; otherwise the connection holds the request
\* until the insert step.
\* The query answers "taken" only when FindOne(...).Decode returns no error:
\* ErrNoDocuments and a driver error both let the handler go on.
RegisterQuery(c, b, bound, takenStatus, ok) ==
    /\ pending[c].pc = "idle"
    /\ IF ~ bound
       THEN AnsweredAdmin(Error("register", b, StatusBadRequest)) /\ UNCHANGED pending
       ELSE IF ok /\ UsernameTaken(b.username)
       THEN /\ AnsweredAdmin(After(<<"FindOne">>, Error("register", b, takenStatus)))
            /\ UNCHANGED pending
       ELSE /\ pending' = [pending EXCEPT ![c] = Held("queried", b, Done("FindOne", ok))]
            /\ UNCHANGED resp /\ AdminsUntouched

\* An insert step that queries the username again, as one operation with the
\* insert.
RegisterInsertIfFree(c, doc) ==
    /\ pending[c].pc = "queried"
    /\ pending' = [pending EXCEPT ![c] = Idle]
    /\ IF UsernameTaken(doc.username)
       THEN AnsweredAdmin(After(<<"FindOne", "FindOne">>,
                Error("register", pending[c].req, StatusConflict)))
       ELSE InsertedAdmin("register", pending[c].req, doc, TRUE, pending[c].seen)

\* The rest of the handler: bcrypt, InsertOne, 201.
RegisterInsert(c, doc) ==
    /\ pending[c].pc = "queried"
    /\ pending' = [pending EXCEPT ![c] = Idle]
    /\ InsertedAdmin("register", pending[c].req, doc, TRUE, pending[c].seen)

HashedDoc(c, email, salt) ==
    AdminDoc(nextAid, pending[c].req.username, email,
             GenerateFromPassword(pending[c].req.password, salt))

\* main-pure.go registerHandler -> createAdmin
registerHandler_pure_query(c, b, ok) ==
    /\ rev = "pure"
    /\ UNCHANGED <<rev, cld, files>> /\ ProductsUntouched
    /\ RegisterQuery(c, b, b.username # "" /\ b.password # "", StatusBadRequest, ok)

registerHandler_pure_insert(c, salt) ==
    /\ rev = "pure"
    /\ UNCHANGED <<rev, cld, files>> /\ ProductsUntouched
    /\ RegisterInsert(c, HashedDoc(c, "", salt))

\* main.go (gin revision) registerAdmin -> createAdmin
registerAdmin_gin_query(c, b, ok) ==
    /\ rev = "gin"
    /\ UNCHANGED <<rev, cld, files>> /\ ProductsUntouched
    /\ RegisterQuery(c, b, b.username # "" /\ b.password # "", StatusBadRequest, ok)

registerAdmin_gin_insert(c, salt) ==
    /\ rev = "gin"
    /\ UNCHANGED <<rev, cld, files>> /\ ProductsUntouched
    /\ RegisterInsert(c, HashedDoc(c, "", salt))

\* main.go (paseto revision) register
register_paseto_query(c, b, ok) ==
    /\ rev = "paseto"
    /\ UNCHANGED <<rev, cld, files>> /\ ProductsUntouched
    /\ RegisterQuery(c, b, BindRegisterRequest(b), StatusConflict, ok)

register_paseto_insert(c, salt) ==
    /\ rev = "paseto"
    /\ UNCHANGED <<rev, cld, files>> /\ ProductsUntouched
    /\ RegisterInsert(c, HashedDoc(c, pending[c].req.email, salt))

\* Controller.Register
Register_ctrl_query(c, b, ok) ==
    /\ rev = "modular"
    /\ UNCHANGED <<rev, cld, files>> /\ ProductsUntouched
    /\ RegisterQuery(c, b, BindRegisterRequest(b), StatusConflict, ok)

Register_ctrl_insert(c, salt) ==
    /\ rev = "modular"
    /\ UNCHANGED <<rev, cld, files>> /\ ProductsUntouched
    /\ RegisterInsert(c, HashedDoc(c, pending[c].req.email, salt))

\* part_006 register: the password is stored as sent.
register_draft_query(c, b, ok) ==
    /\ rev = "draft"
    /\ UNCHANGED <<rev, cld, files>> /\ ProductsUntouched
    /\ RegisterQuery(c, b, BindRegisterRequest(b), StatusConflict, ok)

register_draft_insert(c) ==
    /\ rev = "draft"
    /\ UNCHANGED <<rev, cld, files>> /\ ProductsUntouched
    /\ RegisterInsert(c, AdminDoc(nextAid, pending[c].req.username,
                                  pending[c].req.email, Plain(pending[c].req.password)))

-----------------------------------------------------------------------------
(* Statistics and health, one database call at a time *)

\* The revisions whose stats and health handlers answer 500 when a count or
\* the ping fails (main-pure.go, the gin revision); they report no total_value.
\* The others carry on with a count of 0 and answer 200 to a failed ping.
ChecksErrors == {"pure", "gin"}

\* collection.CountDocuments(ctx, bson.M{}); 0 comes with an error.
CountDocuments(coll, ok) == IF ok THEN Len(coll) ELSE 0

\* {"$multiply": ["$price", "$stock"]}: null for a document that lacks either
\* field, which $sum passes over.
Multiply(d) == IF {"price", "stock"} \subseteq d.keys THEN d.price * d.stock ELSE 0

RECURSIVE Sum(_)
Sum(coll) == IF coll = <<>> THEN 0 ELSE Multiply(Head(coll)) + Sum(Tail(coll))

\* products.Aggregate with {"$group": {"_id": nil, "total": {"$sum": ...}}}: one
\* document, or none for an empty collection.
Aggregate(coll) == IF coll = <<>> THEN <<>> ELSE <<[total |-> Sum(coll)]>>

\* cursor.All(ctx, &result) and result[0]["total"] when there is one.
CursorAll(cursor) == IF Len(cursor) > 0 THEN cursor[1].total ELSE 0

\* Controller.GetStats: cursor.Next(ctx) takes the first document off the
\* batch, then cursor.All decodes what is left of it.
NextThenAll(cursor) == IF cursor # <<>> THEN CursorAll(Tail(cursor)) ELSE 0

\* What a call saw: the value it returned, whether it succeeded, and the
\* collections as they were when it ran.
Saw(n, ok) == [n |-> n, ok |-> ok, db |-> <<products, admins>>]

RECURSIVE CallsOf(_, _)
CallsOf(names, seen) ==
    IF seen = <<>> THEN <<>>
    ELSE Done(Head(names), Head(seen).ok) \o CallsOf(Tail(names), Tail(seen))

\* A stats body built when the handler answers, from the collections as they
\* are then.
StatsAtOnce(fields, seen, total) ==
    [fields |-> fields, total_products |-> Len(products),
     total_admins |-> Len(admins), total_value |-> total]

\* The stats body: the two counts as the count calls returned them.
StatsOf(fields, seen, total) ==
    [fields |-> fields, total_products |-> seen[1].n,
     total_admins |-> seen[2].n, total_value |-> total]

StatsCalls == <<"CountDocuments", "CountDocuments", "Aggregate">>

\* A stats handler that answered: the connection is free again.
StatsAnswered(c, seen, r) ==
    /\ resp' = After(CallsOf(StatsCalls, seen), r)
    /\ pending' = [pending EXCEPT ![c] = Idle]

StatsError(c, seen) ==
    StatsAnswered(c, seen, Error("getStats", [id |-> 0], StatusInternalServerError))

\* First call of statsHandler / getStats / Controller.GetStats:
\* CountDocuments on products.
getStats_products(c, ok) ==
    /\ UNCHANGED <<rev, cld, files>> /\ ProductsUntouched /\ AdminsUntouched
    /\ pending[c].pc = "idle"
    /\ LET seen == <<Saw(CountDocuments(products, ok), ok)>>
       IN IF ~ ok /\ rev \in ChecksErrors
          THEN StatsError(c, seen)
          ELSE /\ pending' = [pending EXCEPT ![c] = Held("products", [id |-> 0], seen)]
               /\ UNCHANGED resp

\* Second call: CountDocuments on admins; main-pure.go and the gin revision
\* answer after it.
getStats_admins(c, ok) ==
    /\ UNCHANGED <<rev, cld, files>> /\ ProductsUntouched /\ AdminsUntouched
    /\ pending[c].pc = "products"
    /\ LET seen == Append(pending[c].seen, Saw(CountDocuments(admins, ok), ok))
       IN IF rev \in ChecksErrors
          THEN IF ~ ok
               THEN StatsError(c, seen)
               ELSE StatsAnswered(c, seen,
                        [Error("getStats", [id |-> 0], StatusOK) EXCEPT
                            !.stats = StatsOf({"total_products", "total_admins"}, seen, 0)])
          ELSE /\ pending' = [pending EXCEPT ![c] = Held("admins", [id |-> 0], seen)]
               /\ UNCHANGED resp

\* Third call of the revisions that report total_value: Aggregate, read with
\* cursor.All, in Controller.GetStats after cursor.Next.
getStats_value(c, ok) ==
    /\ UNCHANGED <<rev, cld, files>> /\ ProductsUntouched /\ AdminsUntouched
    /\ pending[c].pc = "admins"
    /\ LET cursor == Aggregate(products)
           total == IF rev = "modular" THEN NextThenAll(cursor) ELSE CursorAll(cursor)
           seen == Append(pending[c].seen, Saw(total, ok))
       IN IF ~ ok
          THEN StatsError(c, seen)
          ELSE StatsAnswered(c, seen,
                   [Error("getStats", [id |-> 0], StatusOK) EXCEPT
                       !.stats = StatsOf({"total_products", "total_admins", "total_value"},
                                         seen, total)])

\* healthCheck / Controller.HealthCheck: one ping.
HealthCheck(ok) ==
    /\ UNCHANGED <<rev, cld, files, pending>> /\ ProductsUntouched /\ AdminsUntouched
    /\ resp' = After(Done("Ping", ok),
                   Error("health", [id |-> 0],
                         IF ~ ok /\ rev \in ChecksErrors
                         THEN StatusInternalServerError ELSE StatusOK))

-----------------------------------------------------------------------------
(* Routing *)

\* The Authorization header of a request: absent, a string that is no token,
\* or a token a login issued.
Headers == {"none", "forged", "valid"}

\* What runs before the handler of a route: the corsHandler wrapper of
\* main-pure.go, gin.Default() (Logger, Recovery) and cors.New(config) in the
\* gin revisions.  No route registers anything else.
Middleware ==
    IF rev = "pure" THEN <<"corsHandler">> ELSE <<"Logger", "Recovery", "cors">>

\* A chain in which every middleware turns away a request without a token.
AbortsWithoutToken(m, h) == h # "valid"

\* Whether middleware m ends the request because of its Authorization header:
\* none of them reads it.
Aborts(m, h) == FALSE

Routed(h) == \A i \in DOMAIN Middleware : ~ Aborts(Middleware[i], h)

\* A request a middleware ended with 401.
Rejected ==
    /\ resp' = Error("abort", [id |-> 0], StatusUnauthorized)
    /\ UNCHANGED <<rev, cld, files, pending>> /\ ProductsUntouched /\ AdminsUntouched

\* The handler of a route behind the middleware chain.
Route(h, handler) == IF Routed(h) THEN handler ELSE Rejected

-----------------------------------------------------------------------------
(* The router of main-pure.go *)

Methods == {"GET", "POST", "PUT", "DELETE", "OPTIONS"}
StatusMethodNotAllowed == 405

\* The patterns registered on the mux.
Routes ==
    {"/api/health", "/api/products", "/api/products/", "/api/admins", "/api/admins/",
     "/api/register", "/api/login", "/api/upload", "/api/stats", "/static/"}

\* What strings.TrimPrefix leaves of a path that ends with the pattern: the
\* empty string, which is no ObjectID either.
EmptyPath == 0 - 1

\* A request answered by the router itself, before any handler function ran.
RouterAnswer(op, route, m, status) ==
    /\ rev = "pure"
    /\ resp' = Error(op, [route |-> route, method |-> m], status)
    /\ UNCHANGED <<rev, cld, files, pending>> /\ ProductsUntouched /\ AdminsUntouched

\* writeError(w, http.StatusMethodNotAllowed, "Method not allowed")
MethodNotAllowed(route, m) == RouterAnswer("MethodNotAllowed", route, m, StatusMethodNotAllowed)

\* Each handler function of the mux as the function it ends up calling for a
\* request, or the answer it writes itself.

\* corsHandler: sets the CORS headers, answers OPTIONS with 200 itself and
\* calls h for any other method.
corsHandler(m, h) == IF m = "OPTIONS" THEN "corsHandler" ELSE h

\* healthCheck: GET only.
healthCheck(m) == IF m # "GET" THEN "MethodNotAllowed" ELSE "healthCheck"

productsHandler(m) ==
    CASE m = "GET" -> "getProducts"
      [] m = "POST" -> "createProduct"
      [] OTHER -> "MethodNotAllowed"

\* productHandler: the empty id is refused before the method is looked at.
productHandler(m, id) ==
    IF id = EmptyPath THEN "BadRequest"
    ELSE CASE m = "GET" -> "getProduct"
           [] m = "PUT" -> "updateProduct"
           [] m = "DELETE" -> "deleteProduct"
           [] OTHER -> "MethodNotAllowed"

adminsHandler(m) ==
    CASE m = "GET" -> "getAdmins"
      [] m = "POST" -> "createAdmin"
      [] OTHER -> "MethodNotAllowed"

\* An admin handler that looks at the id only.
adminHandlerAnyMethod(m, id) == IF id = EmptyPath THEN "BadRequest" ELSE "deleteAdmin"

\* adminHandler: the method is looked at first, then the id.
adminHandler(m, id) ==
    IF m # "DELETE" THEN "MethodNotAllowed"
    ELSE IF id = EmptyPath THEN "BadRequest" ELSE "deleteAdmin"

registerHandler(m) == IF m # "POST" THEN "MethodNotAllowed" ELSE "register"

\* loginHandler: GET answers {"message": "Login endpoint ready"} itself.
loginHandler(m) ==
    CASE m = "GET" -> "loginHandler"
      [] m = "POST" -> "loginAdmin"
      [] OTHER -> "MethodNotAllowed"

uploadHandler(m) == IF m # "POST" THEN "MethodNotAllowed" ELSE "upload"

statsHandler(m) == IF m # "GET" THEN "MethodNotAllowed" ELSE "getStats"

\* The method check of staticHandler.
staticMethod(m) == IF m # "GET" THEN "MethodNotAllowed" ELSE "static"

\* mux.HandleFunc(route, corsHandler(handler)): what runs for a request.
Handler(route, m, in) ==
    corsHandler(m,
        CASE route = "/api/health" -> healthCheck(m)
          [] route = "/api/products" -> productsHandler(m)
          [] route = "/api/products/" -> productHandler(m, in.id)
          [] route = "/api/admins" -> adminsHandler(m)
          [] route = "/api/admins/" -> adminHandler(m, in.id)
          [] route = "/api/register" -> registerHandler(m)
          [] route = "/api/login" -> loginHandler(m)
          [] route = "/api/upload" -> uploadHandler(m)
          [] route = "/api/stats" -> statsHandler(m)
          [] route = "/static/" -> staticMethod(m))

\* getProducts: Find with an empty filter, every document decoded.
getProducts_pure ==
    /\ rev = "pure"
    /\ UNCHANGED <<rev, cld, files, pending>> /\ AdminsUntouched
    /\ Answered(After(<<"Find">>,
           Resp("getProducts", [id |-> 0], StatusOK,
                [i \in 1 .. Len(products) |-> Decode(products[i])], NoAdmins, NoToken)))

-----------------------------------------------------------------------------
(* Static files of main-pure.go *)

\* A URL path is the sequence of its characters; the directory names "static"
\* and "uploads" and the pieces of "go.mod" stand for their characters.

\* A check that finds nothing in any path.
ContainsNothing(s, sub) == FALSE

\* strings.Contains(s, sub)
Contains(s, sub) ==
    \E i \in 0 .. Len(s) - Len(sub) : SubSeq(s, i + 1, i + Len(sub)) = sub

\* The pieces of a path between its "/" separators.
RECURSIVE Segments(_)
Segments(p) ==
    IF \A i \in DOMAIN p : p[i] # "/"
    THEN <<p>>
    ELSE LET k == Min({i \in DOMAIN p : p[i] = "/"})
         IN <<SubSeq(p, 1, k - 1)>> \o Segments(SubSeq(p, k + 1, Len(p)))

\* filepath.Clean of a relative path, segment by segment: empty and "."
\* segments are dropped, ".." takes the segment before it away and stays
\* when there is none.
RECURSIVE Clean(_, _)
Clean(done, rest) ==
    IF rest = <<>> THEN done
    ELSE LET s == Head(rest)
         IN IF s = <<>> \/ s = <<".">> THEN Clean(done, Tail(rest))
            ELSE IF s = <<".", ".">> /\ done # <<>> /\ done[Len(done)] # <<".", ".">>
                 THEN Clean(SubSeq(done, 1, Len(done) - 1), Tail(rest))
                 ELSE Clean(Append(done, s), Tail(rest))

\* filepath.Join(dir, path)
Join(dir, path) == Clean(<<>>, Segments(dir) \o Segments(path))

\* The files os.Stat finds: the uploads, and the module file in the working
\* directory of the server.
WorkingDir == {<<<<"go", ".", "mod">>>>}
OnDisk == {Join(<<"static", "/", "uploads">>, f.path[2]) : f \in files} \cup WorkingDir

\* What is left of the URL path after "/static/".
PlainPaths ==
    {<<>>,
     <<"uploads", "/", "a", ".", "p", "n", "g">>,
     <<".", "/", "uploads", "/", "a", ".", "p", "n", "g">>,
     <<"uploads", "/", "a", ".", "e", "x", "e">>,
     <<"go", ".", "mod">>}
DotDotPaths ==
    {<<".", ".", "/", "go", ".", "mod">>,
     <<"uploads", "/", ".", ".", "/", ".", ".", "/", "go", ".", "mod">>,
     <<"uploads", "/", ".", ".", "/", "uploads", "/", "a", ".", "p", "n", "g">>,
     <<"uploads", "/", "a", ".", ".", "p", "n", "g">>}
StaticPaths == PlainPaths \cup DotDotPaths

\* A response of staticHandler: the file it served, if any.
StaticAnswer(m, path, file, status) ==
    /\ rev = "pure"
    /\ resp' = Error("static", [method |-> m, path |-> path, file |-> file], status)
    /\ UNCHANGED <<rev, cld, files, pending>> /\ ProductsUntouched /\ AdminsUntouched

staticHandler(m, path) ==
    IF m # "GET" THEN StaticAnswer(m, path, <<>>, StatusMethodNotAllowed)
    ELSE IF path = <<>> THEN StaticAnswer(m, path, <<>>, StatusBadRequest)
    ELSE IF Contains(path, <<".", ".">>) THEN StaticAnswer(m, path, <<>>, StatusBadRequest)
    ELSE LET fullPath == Join(<<"static">>, path)
         IN IF fullPath \notin OnDisk
            THEN StaticAnswer(m, path, <<>>, StatusNotFound)
            ELSE StaticAnswer(m, path, fullPath, StatusOK)

-----------------------------------------------------------------------------
(* Specifications *)

NoRequest == Error("start", [id |-> 0], 0)

Init ==
    /\ rev \in Revs
    /\ products = <<>>
    /\ admins = <<>>
    /\ files = {}
    /\ nextPid = 1
    /\ nextAid = 1
    /\ resp = NoRequest
    /\ created = <<>>
    /\ removed = {}
    /\ supplied = <<>>
    /\ registered = {}
    /\ pending = [c \in Clients |-> Idle]
    /\ cld \in (IF rev \in ImageRevs THEN BOOLEAN ELSE {FALSE})

ProductNext ==
    \/ \E b \in CreateBodies : createProduct_pure(b)
    \/ \E b \in CreateBodies : createProduct_gin(b)
    \/ \E b \in CreateBodies, now \in Started, ok \in HostUp : createProduct_paseto(b, now, ok)
    \/ \E b \in CreateBodies, now \in Started, ok \in HostUp : CreateProduct_ctrl(b, now, ok)
    \/ \E b \in CreateBodies, now \in Started : createProduct_draft(b, now)
    \/ \E id \in ProductPathIds : getProduct_pure(id)
    \/ \E id \in ProductPathIds : getProduct_gin(id)
    \/ \E id \in ProductPathIds : getProduct_paseto(id)
    \/ \E id \in ProductPathIds : GetProduct_ctrl(id)
    \/ \E id \in ProductPathIds : getProduct_draft(id)
    \/ \E id \in ProductPathIds, b \in UpdateBodies : updateProduct_pure(id, b)
    \/ \E id \in ProductPathIds, b \in UpdateBodies : updateProduct_gin(id, b)
    \/ \E id \in ProductPathIds, b \in UpdateBodies, now \in Started, ok \in HostUp :
            updateProduct_paseto(id, b, now, ok)
    \/ \E id \in ProductPathIds, b \in UpdateBodies, now \in Started, ok \in HostUp :
            UpdateProduct_ctrl(id, b, now, ok)
    \/ \E id \in ProductPathIds, b \in UpdateBodies, now \in Started :
            updateProduct_draft(id, b, now)
    \/ \E id \in ProductPathIds : deleteProduct_pure(id)
    \/ \E id \in ProductPathIds : deleteProduct_gin(id)
    \/ \E id \in ProductPathIds : deleteProduct_paseto(id)
    \/ \E id \in ProductPathIds : DeleteProduct_ctrl(id)
    \/ \E id \in ProductPathIds : deleteProduct_draft(id)

SpecProducts == Init /\ [][ProductNext]_vars

AdminNext ==
    \/ \E b \in AdminInputs, salt \in Salts : createAdmin_pure(b, salt)
    \/ \E b \in AdminInputs, salt \in Salts : registerHandler_pure(b, salt)
    \/ \E b \in AdminInputs, salt \in Salts : createAdmin_gin(b, salt)
    \/ \E b \in AdminInputs, salt \in Salts : registerAdmin_gin(b, salt)
    \/ \E b \in NewAdminBodies : createAdmin_paseto(b)
    \/ \E b \in NewAdminBodies : createAdmin_draft(b)
    \/ \E b \in NewAdminBodies, salt \in Salts : CreateAdmin_ctrl(b, salt)
    \/ \E b \in RegisterBodies, salt \in Salts : register_paseto(b, salt)
    \/ \E b \in RegisterBodies, salt \in Salts : Register_ctrl(b, salt)
    \/ \E b \in RegisterBodies : register_draft(b)
    \/ \E b \in CredentialBodies : loginAdmin_pure(b)
    \/ \E b \in CredentialBodies : loginAdmin_gin(b)
    \/ \E b \in CredentialBodies, now \in Clock : login_paseto(b, now)
    \/ \E b \in CredentialBodies, now \in Clock : Login_ctrl(b, now)
    \/ \E b \in CredentialBodies : login_draft(b)
    \/ getAdmins_pure
    \/ getAdmins_gin
    \/ getAdmins_paseto
    \/ GetAdmins_ctrl
    \/ getAdmins_draft
    \/ \E id \in AdminPathIds : deleteAdmin_pure(id)
    \/ \E id \in AdminPathIds : deleteAdmin_gin(id)
    \/ \E id \in AdminPathIds : deleteAdmin_paseto(id)
    \/ \E id \in AdminPathIds : DeleteAdmin_ctrl(id)
    \/ \E id \in AdminPathIds : deleteAdmin_draft(id)

SpecAdmins == Init /\ [][AdminNext]_vars

UploadNext ==
    \/ \E u \in Uploads : uploadHandler_pure(u)
    \/ \E u \in Uploads, now \in UnixTimes : uploadImage_gin(u, now)
    \/ \E u \in Uploads, now \in UnixTimes : uploadFile_paseto(u, now)
    \/ \E u \in Uploads, now \in UnixTimes : uploadFile_draft(u, now)
    \/ \E u \in Uploads : upload_modular(u)

SpecUpload == Init /\ [][UploadNext]_vars

\* Both collections populated by one fixed request each, then deleted from.
SeedProducts == {b \in CreateBodies : b.name = "w" /\ b.price = 5}
SeedAdmins == {b \in CredentialBodies : b.username # "" /\ b.password = "p"}

DeleteNext ==
    \/ \E b \in SeedProducts : createProduct_pure(b)
    \/ \E b \in SeedProducts : createProduct_gin(b)
    \/ \E b \in SeedProducts, now \in Started, ok \in HostUp : createProduct_paseto(b, now, ok)
    \/ \E b \in SeedProducts, now \in Started, ok \in HostUp : CreateProduct_ctrl(b, now, ok)
    \/ \E b \in SeedProducts, now \in Started : createProduct_draft(b, now)
    \/ \E b \in SeedAdmins, salt \in Salts : createAdmin_pure(b, salt)
    \/ \E b \in SeedAdmins, salt \in Salts : createAdmin_gin(b, salt)
    \/ \E b \in SeedAdmins : createAdmin_paseto(b)
    \/ \E b \in SeedAdmins, salt \in Salts : CreateAdmin_ctrl(b, salt)
    \/ \E b \in SeedAdmins : createAdmin_draft(b)
    \/ \E id \in ProductPathIds : deleteProduct_pure(id)
    \/ \E id \in ProductPathIds : deleteProduct_gin(id)
    \/ \E id \in ProductPathIds : deleteProduct_paseto(id)
    \/ \E id \in ProductPathIds : DeleteProduct_ctrl(id)
    \/ \E id \in ProductPathIds : deleteProduct_draft(id)
    \/ \E id \in AdminPathIds : deleteAdmin_pure(id)
    \/ \E id \in AdminPathIds : deleteAdmin_gin(id)
    \/ \E id \in AdminPathIds : deleteAdmin_paseto(id)
    \/ \E id \in AdminPathIds : DeleteAdmin_ctrl(id)
    \/ \E id \in AdminPathIds : deleteAdmin_draft(id)

SpecDeletes == Init /\ [][DeleteNext]_vars

\* Requests that write, each with an Authorization header, and logins.
SeedUpdates == {b \in UpdateBodies : b.keys = {"price"} /\ b.price = 0}
RouteAdmins == {b \in SeedAdmins : b.username = "a"}

RoutesStep(h) ==
    \/ Route(h, \E b \in SeedProducts : createProduct_pure(b))
    \/ Route(h, \E b \in SeedProducts : createProduct_gin(b))
    \/ Route(h, \E b \in SeedProducts, now \in Started, ok \in HostUp : createProduct_paseto(b, now, ok))
    \/ Route(h, \E b \in SeedProducts, now \in Started, ok \in HostUp : CreateProduct_ctrl(b, now, ok))
    \/ Route(h, \E b \in SeedProducts, now \in Started : createProduct_draft(b, now))
    \/ Route(h, \E id \in ProductPathIds, b \in SeedUpdates : updateProduct_pure(id, b))
    \/ Route(h, \E id \in ProductPathIds, b \in SeedUpdates : updateProduct_gin(id, b))
    \/ Route(h, \E id \in ProductPathIds, b \in SeedUpdates, now \in Started, ok \in HostUp :
            updateProduct_paseto(id, b, now, ok))
    \/ Route(h, \E id \in ProductPathIds, b \in SeedUpdates, now \in Started, ok \in HostUp :
            UpdateProduct_ctrl(id, b, now, ok))
    \/ Route(h, \E id \in ProductPathIds, b \in SeedUpdates, now \in Started :
            updateProduct_draft(id, b, now))
    \/ Route(h, \E id \in ProductPathIds : deleteProduct_pure(id))
    \/ Route(h, \E id \in ProductPathIds : deleteProduct_gin(id))
    \/ Route(h, \E id \in ProductPathIds : deleteProduct_paseto(id))
    \/ Route(h, \E id \in ProductPathIds : DeleteProduct_ctrl(id))
    \/ Route(h, \E id \in ProductPathIds : deleteProduct_draft(id))
    \/ Route(h, \E b \in RouteAdmins, salt \in Salts : createAdmin_pure(b, salt))
    \/ Route(h, \E b \in RouteAdmins, salt \in Salts : createAdmin_gin(b, salt))
    \/ Route(h, \E b \in RouteAdmins : createAdmin_paseto(b))
    \/ Route(h, \E b \in RouteAdmins, salt \in Salts : CreateAdmin_ctrl(b, salt))
    \/ Route(h, \E b \in RouteAdmins : createAdmin_draft(b))
    \/ Route(h, \E id \in AdminPathIds : deleteAdmin_pure(id))
    \/ Route(h, \E id \in AdminPathIds : deleteAdmin_gin(id))
    \/ Route(h, \E id \in AdminPathIds : deleteAdmin_paseto(id))
    \/ Route(h, \E id \in AdminPathIds : DeleteAdmin_ctrl(id))
    \/ Route(h, \E id \in AdminPathIds : deleteAdmin_draft(id))

RoutesNext ==
    \/ \E h \in Headers : RoutesStep(h)
    \/ \E h \in Headers : Route(h, \E b \in RouteAdmins : loginAdmin_pure(b))
    \/ \E h \in Headers : Route(h, \E b \in RouteAdmins : loginAdmin_gin(b))
    \/ \E h \in Headers : Route(h, \E b \in RouteAdmins, now \in Clock : login_paseto(b, now))
    \/ \E h \in Headers : Route(h, \E b \in RouteAdmins, now \in Clock : Login_ctrl(b, now))
    \/ \E h \in Headers : Route(h, \E b \in RouteAdmins : login_draft(b))

SpecRoutes == Init /\ [][RoutesNext]_vars

\* Stats requests served while products and admins are created and deleted;
\* every database call succeeds.
StockedProducts ==
    {b \in BodiesNaming(ProductFields) : b.name = "w" /\ b.price = 5 /\ b.stock = 2}

StatsNext ==
    \/ \E c \in Clients : getStats_products(c, TRUE)
    \/ \E c \in Clients : getStats_admins(c, TRUE)
    \/ \E c \in Clients : getStats_value(c, TRUE)
    \/ \E b \in StockedProducts : createProduct_pure(b)
    \/ \E b \in StockedProducts : createProduct_gin(b)
    \/ \E b \in StockedProducts, now \in Started, ok \in HostUp : createProduct_paseto(b, now, ok)
    \/ \E b \in StockedProducts, now \in Started, ok \in HostUp : CreateProduct_ctrl(b, now, ok)
    \/ \E b \in StockedProducts, now \in Started : createProduct_draft(b, now)
    \/ \E id \in ProductPathIds : deleteProduct_pure(id)
    \/ \E id \in ProductPathIds : deleteProduct_gin(id)
    \/ \E id \in ProductPathIds : deleteProduct_paseto(id)
    \/ \E id \in ProductPathIds : DeleteProduct_ctrl(id)
    \/ \E id \in ProductPathIds : deleteProduct_draft(id)
    \/ \E b \in RouteAdmins, salt \in Salts : createAdmin_pure(b, salt)
    \/ \E b \in RouteAdmins, salt \in Salts : createAdmin_gin(b, salt)
    \/ \E b \in RouteAdmins : createAdmin_paseto(b)
    \/ \E b \in RouteAdmins, salt \in Salts : CreateAdmin_ctrl(b, salt)
    \/ \E b \in RouteAdmins : createAdmin_draft(b)

SpecStats == Init /\ [][StatsNext]_vars

\* Stats, health and register requests whose database calls can fail.
NewAdmins == {b \in NewAdminBodies : b.username = "a" /\ b.password = "p"}

FaultsNext ==
    \/ \E c \in Clients, ok \in BOOLEAN : getStats_products(c, ok)
    \/ \E c \in Clients, ok \in BOOLEAN : getStats_admins(c, ok)
    \/ \E c \in Clients, ok \in BOOLEAN : getStats_value(c, ok)
    \/ \E ok \in BOOLEAN : HealthCheck(ok)
    \/ \E c \in Clients, b \in NewAdmins, ok \in BOOLEAN : Register_ctrl_query(c, b, ok)
    \/ \E c \in Clients, salt \in Salts : Register_ctrl_insert(c, salt)

SpecFaults == Init /\ [][FaultsNext]_vars

\* Register requests served concurrently, with admin deletes between them.
RegisterRaceNext ==
    \/ \E c \in Clients, b \in AdminInputs : registerHandler_pure_query(c, b, TRUE)
    \/ \E c \in Clients, salt \in Salts : registerHandler_pure_insert(c, salt)
    \/ \E c \in Clients, b \in AdminInputs : registerAdmin_gin_query(c, b, TRUE)
    \/ \E c \in Clients, salt \in Salts : registerAdmin_gin_insert(c, salt)
    \/ \E c \in Clients, b \in RegisterBodies : register_paseto_query(c, b, TRUE)
    \/ \E c \in Clients, salt \in Salts : register_paseto_insert(c, salt)
    \/ \E c \in Clients, b \in RegisterBodies : Register_ctrl_query(c, b, TRUE)
    \/ \E c \in Clients, salt \in Salts : Register_ctrl_insert(c, salt)
    \/ \E c \in Clients, b \in RegisterBodies : register_draft_query(c, b, TRUE)
    \/ \E c \in Clients : register_draft_insert(c)
    \/ \E id \in AdminPathIds : deleteAdmin_pure(id)
    \/ \E id \in AdminPathIds : deleteAdmin_gin(id)
    \/ \E id \in AdminPathIds : deleteAdmin_paseto(id)
    \/ \E id \in AdminPathIds : DeleteAdmin_ctrl(id)
    \/ \E id \in AdminPathIds : deleteAdmin_draft(id)

SpecRegisterRace == Init /\ [][RegisterRaceNext]_vars

\* Product creates and updates of the struct-binding revisions, with image
\* references, inline images and a clock that moves.
ImageBodies ==
    {b \in UNION {BodiesNaming(K) :
                     K \in {{"name"}, {"name", "image_url"}, {"name", "image_base64"}}} :
        /\ ("image_url" \in b.keys => b.image_url # "")
        /\ ("image_base64" \in b.keys => b.image_base64 # "")}

ImagesNext ==
    \/ \E b \in ImageBodies, now \in Instants, ok \in Outcomes :
            createProduct_paseto(b, now, ok)
    \/ \E b \in ImageBodies, now \in Instants, ok \in Outcomes :
            CreateProduct_ctrl(b, now, ok)
    \/ \E b \in ImageBodies, now \in Instants : createProduct_draft(b, now)
    \/ \E id \in ProductPathIds, b \in ImageBodies, now \in Instants, ok \in Outcomes :
            updateProduct_paseto(id, b, now, ok)
    \/ \E id \in ProductPathIds, b \in ImageBodies, now \in Instants, ok \in Outcomes :
            UpdateProduct_ctrl(id, b, now, ok)
    \/ \E id \in ProductPathIds, b \in ImageBodies, now \in Instants :
            updateProduct_draft(id, b, now)

SpecImages == Init /\ [][ImagesNext]_vars

\* Every route of main-pure.go under every method.

\* One path that names a file and one that climbs out of the directory.
RouterPaths ==
    {<<"uploads", "/", "a", ".", "p", "n", "g">>, <<".", ".", "/", "go", ".", "mod">>}

\* One valid product, one update of the price, one admin.
NewProduct ==
    [keys |-> {"name", "price"}, name |-> "w", price |-> 5, stock |-> 0,
     image_url |-> "", image_base64 |-> ""]
NewPrice ==
    [keys |-> {"price"}, name |-> "", price |-> 0, stock |-> 0,
     image_url |-> "", image_base64 |-> ""]
NewAdmin == [username |-> "a", email |-> "", password |-> "p"]

\* What a request to a route carries besides its method.
Inputs(route) ==
    CASE route = "/api/health" -> [ok : BOOLEAN]
      [] route = "/api/products" -> [b : {NewProduct}]
      [] route = "/api/products/" -> [id : {EmptyPath, 1}, b : {NewPrice}]
      [] route = "/api/admins" -> [b : {NewAdmin}, salt : {1}]
      [] route = "/api/admins/" -> [id : {EmptyPath, 1}]
      [] route = "/api/register" -> [b : {NewAdmin}, salt : {1}]
      [] route = "/api/login" -> [b : {NewAdmin}]
      [] route = "/api/upload" ->
            [u : [filename : {<<"a", ".", "p", "n", "g">>, <<"a", ".", "e", "x", "e">>},
                  size : {1}]]
      [] route = "/api/stats" -> [c : {1}, ok : BOOLEAN]
      [] route = "/static/" -> [path : RouterPaths]

\* A request served: the function the router picked runs.
Serve(route, m, in) ==
    LET f == Handler(route, m, in)
    IN /\ rev = "pure"
       /\ CASE f = "corsHandler" -> RouterAnswer(f, route, m, StatusOK)
            [] f = "MethodNotAllowed" -> MethodNotAllowed(route, m)
            [] f = "BadRequest" -> RouterAnswer(f, route, m, StatusBadRequest)
            [] f = "loginHandler" -> RouterAnswer(f, route, m, StatusOK)
            [] f = "healthCheck" -> HealthCheck(in.ok)
            [] f = "getProducts" -> getProducts_pure
            [] f = "createProduct" -> createProduct_pure(in.b)
            [] f = "getProduct" -> getProduct_pure(in.id)
            [] f = "updateProduct" -> updateProduct_pure(in.id, in.b)
            [] f = "deleteProduct" -> deleteProduct_pure(in.id)
            [] f = "getAdmins" -> getAdmins_pure
            [] f = "createAdmin" -> createAdmin_pure(in.b, in.salt)
            [] f = "deleteAdmin" -> deleteAdmin_pure(in.id)
            [] f = "register" -> registerHandler_pure(in.b, in.salt)
            [] f = "loginAdmin" -> loginAdmin_pure(in.b)
            [] f = "upload" -> uploadHandler_pure(in.u)
            [] f = "getStats" -> getStats_products(in.c, in.ok)
            [] f = "static" -> staticHandler(m, in.path)

RouterNext ==
    \/ \E m \in Methods, in \in Inputs("/api/health") : Serve("/api/health", m, in)
    \/ \E m \in Methods, in \in Inputs("/api/products") : Serve("/api/products", m, in)
    \/ \E m \in Methods, in \in Inputs("/api/products/") : Serve("/api/products/", m, in)
    \/ \E m \in Methods, in \in Inputs("/api/admins") : Serve("/api/admins", m, in)
    \/ \E m \in Methods, in \in Inputs("/api/admins/") : Serve("/api/admins/", m, in)
    \/ \E m \in Methods, in \in Inputs("/api/register") : Serve("/api/register", m, in)
    \/ \E m \in Methods, in \in Inputs("/api/login") : Serve("/api/login", m, in)
    \/ \E m \in Methods, in \in Inputs("/api/upload") : Serve("/api/upload", m, in)
    \/ \E m \in Methods, in \in Inputs("/api/stats") : Serve("/api/stats", m, in)
    \/ \E m \in Methods, in \in Inputs("/static/") : Serve("/static/", m, in)
    \/ \E c \in {1}, ok \in BOOLEAN : rev = "pure" /\ getStats_admins(c, ok)

SpecRouter == Init /\ [][RouterNext]_vars

\* Uploads and requests for static files, main-pure.go.
StaticNext ==
    \/ \E m \in Methods, u \in Uploads : Serve("/api/upload", m, [u |-> u])
    \/ \E m \in Methods, path \in StaticPaths :
          IF corsHandler(m, "static") = "corsHandler"
          THEN RouterAnswer("corsHandler", "/static/", m, StatusOK)
          ELSE staticHandler(m, path)

SpecStatic == Init /\ [][StaticNext]_vars

-----------------------------------------------------------------------------
(* Properties *)

\* C1: a product create whose name is empty or whose price is zero or negative
\* is answered BadRequest and leaves the products collection as it was, in
\* every revision.  (Stated as the claim has it; the struct-binding revisions
\* do not validate and the gin revision lets a negative price through.)
C1_InvalidCreateIsRejected ==
    [][(resp'.op = "createProduct" /\ (resp'.req.name = "" \/ resp'.req.price <= 0))
          => (resp'.status = StatusBadRequest /\ products' = products)]_vars

\* C7: a delete of a well-formed product id or admin id that no document has
\* is answered NotFound and changes neither collection.
C7_DeleteOfMissingIdIsNotFound ==
    [][/\ (/\ resp'.op = "deleteProduct"
           /\ ~ ObjectIDFromHex(resp'.req.id).err
           /\ \A i \in DOMAIN products : products[i].id # resp'.req.id)
          => (resp'.status = StatusNotFound /\ products' = products /\ admins' = admins)
       /\ (/\ resp'.op = "deleteAdmin"
           /\ ~ ObjectIDFromHex(resp'.req.id).err
           /\ \A i \in DOMAIN admins : admins[i].id # resp'.req.id)
          => (resp'.status = StatusNotFound /\ products' = products /\ admins' = admins)]_vars

\* C7 witness: a product delete answered NotFound while both collections hold
\* documents and an earlier product delete had succeeded.
C7_Witness ==
    /\ resp.op = "deleteProduct" /\ resp.status = StatusNotFound
    /\ resp.req.id \in removed
    /\ products # <<>> /\ admins # <<>>

\* C9: a product a create answered 201 for is returned by Get with the name
\* and price that were sent, for as long as it is neither updated nor
\* deleted; once a delete answered 200 for an id, Get on it answers NotFound.
C9_CreateGetDeleteRoundTrip ==
    /\ \A id \in DOMAIN created :
          LET r == GetProductResponse(id)
          IN /\ r.status = StatusOK
             /\ r.products[1].id = id
             /\ r.products[1].name = created[id].name
             /\ r.products[1].price = created[id].price
    /\ \A id \in removed : GetProductResponse(id).status = StatusNotFound

\* C9 witness: a Get answered NotFound for a deleted id while another created
\* product is still there to be read back.
C9_Witness ==
    /\ resp.op = "getProduct" /\ resp.status = StatusNotFound
    /\ resp.req.id \in removed
    /\ DOMAIN created # {}

\* C2: when register is called twice in a row with the same request, the first
\* call storing the admin, the second call is answered Conflict, stores
\* nothing, and exactly one admin with that username exists afterwards.
\* (Stated as the claim has it; main-pure.go and the gin revision answer
\* BadRequest for the taken username.)
C2_SecondRegisterIsConflict ==
    [][(/\ resp.op = "register" /\ resp.status = StatusCreated
        /\ resp'.op = "register" /\ resp'.req = resp.req)
          => (/\ resp'.status = StatusConflict
              /\ admins' = admins
              /\ Cardinality({i \in DOMAIN admins' :
                                 admins'[i].username = resp.req.username}) = 1)]_vars

\* C3: every stored admin, whichever endpoint created it and whatever other
\* admins exist, can log in with its username and the password given when it
\* was created.  (Stated as the claim has it; createAdmin of main.go:503 and of
\* part_006 store the password as sent, Controller.CreateAdmin stores a second
\* record under a taken username.)
C3_EveryStoredAdminCanLogin ==
    \A i \in DOMAIN admins, now \in Clock :
        PostLogin([username |-> admins[i].username, email |-> "",
                   password |-> supplied[admins[i].id]], now).status = StatusOK

\* C4: no response of register, createAdmin, login or getAdmins shows a
\* password or a password hash: the password field of every admin object in
\* the response is empty.
C4_NoPasswordInResponses ==
    resp.op \in {"register", "createAdmin", "login", "getAdmins"}
        => \A i \in DOMAIN resp.admins : resp.admins[i].password = Blank

\* C4 witness: getAdmins listed two admins, one stored with a bcrypt hash and
\* one stored with the password as sent.
C4_Witness ==
    /\ resp.op = "getAdmins" /\ Len(resp.admins) = 2
    /\ \E i \in DOMAIN admins : admins[i].password.bcrypt
    /\ \E i \in DOMAIN admins : ~ admins[i].password.bcrypt /\ admins[i].password.text # ""

\* C5 as stated: a login whose username no admin has, or whose password is not
\* the password of any admin with that username, is answered Unauthorized
\* with no token and leaves the admins collection unchanged.
C5_BadCredentialsAreUnauthorized ==
    [][(/\ resp'.op = "login"
        /\ \A i \in DOMAIN admins :
              admins[i].username = resp'.req.username
                  => admins[i].password.text # resp'.req.password)
          => (/\ resp'.status = StatusUnauthorized
              /\ resp'.tokens = NoToken
              /\ admins' = admins)]_vars

\* C5 amended: the same for a login request that carries a non-empty username
\* and a non-empty password (a request without them is answered BadRequest).
C5_PresentBadCredentialsAreUnauthorized ==
    [][(/\ resp'.op = "login"
        /\ resp'.req.username # "" /\ resp'.req.password # ""
        /\ \A i \in DOMAIN admins :
              admins[i].username = resp'.req.username
                  => admins[i].password.text # resp'.req.password)
          => (/\ resp'.status = StatusUnauthorized
              /\ resp'.tokens = NoToken
              /\ admins' = admins)]_vars

\* C5 witness: a login with the username of an admin stored with a bcrypt hash
\* and a non-empty password that is not that admin's was answered Unauthorized.
C5_Witness ==
    /\ resp.op = "login" /\ resp.status = StatusUnauthorized
    /\ resp.req.password # ""
    /\ \E i \in DOMAIN admins :
          /\ admins[i].username = resp.req.username
          /\ admins[i].password.bcrypt
          /\ admins[i].password.text # resp.req.password

\* C6: every admin record a creation endpoint persisted holds a salted hash of
\* the password it was given, never the password itself.  (Stated as the claim
\* has it; createAdmin of main.go:503 and register/createAdmin of part_006
\* insert the password as sent.)
C6_StoredPasswordsAreSaltedHashes ==
    \A i \in DOMAIN admins :
        /\ admins[i].password.bcrypt
        /\ admins[i].password.salt \in Salts
        /\ admins[i].password # Plain(supplied[admins[i].id])

\* C8: an upload larger than 10 MiB, or whose file name has no extension, or
\* whose extension, lower-cased, is not png, jpg, jpeg or gif, is answered
\* BadRequest and writes neither a file nor a document.  (Stated as the claim
\* has it; uploadFile of main.go:651 and of part_006 check the size only, and
\* the modular revision has no upload route.)
C8_BadUploadIsRejectedBeforeAnyWrite ==
    [][(/\ resp'.op = "upload"
        /\ \/ resp'.req.size > MaxFileSize
           \/ ~ ExtensionAllowed(resp'.req.filename))
          => (/\ resp'.status = StatusBadRequest
              /\ files' = files
              /\ products' = products)]_vars

\* C10: an admin that register answered 201 for, and that has not been
\* deleted since, can log in with the username and password it registered
\* with: the login is answered 200, and with a token in the revisions that
\* issue one.
C10_RegisteredAdminCanLogin ==
    \A i \in DOMAIN admins, now \in Clock :
        admins[i].id \in registered =>
            LET r == PostLogin([username |-> admins[i].username, email |-> "",
                                password |-> supplied[admins[i].id]], now)
            IN /\ r.status = StatusOK
               /\ rev \in {"paseto", "modular", "draft"} => r.tokens # NoToken

\* C10 witness: a login answered 200 with a token for a registered admin while
\* a later record carries the same username.
C10_Witness ==
    /\ resp.op = "login" /\ resp.status = StatusOK /\ resp.tokens # NoToken
    /\ Len(admins) = 2
    /\ admins[1].id \in registered
    /\ admins[1].username = resp.req.username
    /\ admins[2].username = resp.req.username


\* C11: a Get, Update or Delete of a product whose path id is not a well-formed
\* ObjectID is answered BadRequest before any database operation is issued and
\* leaves the products collection as it was; a Get of a well-formed id that no
\* document has is answered NotFound.
C11_MalformedIdIsRejectedBeforeTheDatabase ==
    [][/\ (/\ resp'.op \in {"getProduct", "updateProduct", "deleteProduct"}
           /\ ObjectIDFromHex(resp'.req.id).err)
          => (/\ resp'.status = StatusBadRequest
              /\ resp'.calls = <<>>
              /\ products' = products)
       /\ (/\ resp'.op = "getProduct"
           /\ ~ ObjectIDFromHex(resp'.req.id).err
           /\ \A i \in DOMAIN products : products[i].id # resp'.req.id)
          => (resp'.status = StatusNotFound /\ products' = products)]_vars

\* C11 witness: an update with a malformed id was answered BadRequest with no
\* database operation while the collection holds a product.
C11_Witness ==
    /\ resp.op = "updateProduct" /\ ObjectIDFromHex(resp.req.id).err
    /\ resp.status = StatusBadRequest /\ resp.calls = <<>>
    /\ products # <<>>


C13_UpdateVariantsDiffer ==
    [][(resp'.op = "updateProduct" /\ resp'.status = StatusOK)
          => \A i \in DOMAIN products :
                products[i].id = resp'.req.id
                   => /\ ("name" \notin resp'.req.body.keys /\ products[i].name # "")
                         => /\ rev \in MapRevs => products'[i].name = products[i].name
                            /\ rev \notin MapRevs => products'[i].name = ""
                      /\ ("price" \notin resp'.req.body.keys /\ products[i].price # 0)
                         => /\ rev \in MapRevs => products'[i].price = products[i].price
                            /\ rev \notin MapRevs => products'[i].price = 0]_vars

\* C13 witness: updateProduct of main-pure.go answered 200 for a body naming
\* only the price; the stored product has that price and still has its name,
\* which the struct-based variant would have overwritten with "".
C13_Witness ==
    /\ rev = "pure"
    /\ resp.op = "updateProduct" /\ resp.status = StatusOK
    /\ resp.calls = <<"UpdateOne", "FindOne">>
    /\ resp.req.body.keys = {"price"}
    /\ \E i \in DOMAIN products :
          /\ products[i].id = resp.req.id
          /\ products[i].name # "" /\ products[i].price = resp.req.body.price
          /\ SetKeys(products[i], StructSet(Bind(resp.req.body))) # products[i]

\* C14: after any sequence of register, createAdmin and deleteAdmin requests
\* served one at a time, no two stored admins have the same username.
\* (Stated as the claim has it; Controller.CreateAdmin and createAdmin of
\* main.go:503 and of part_006 insert without an existence query.)
C14_UsernamesAreUnique ==
    \A i, j \in DOMAIN admins : admins[i].username = admins[j].username => i = j


\* C15: the existence query of register is not atomic with its insert.  A
\* register request that found its username free inserts its record and is
\* answered 201 whatever was stored in between; when another request stored
\* the same username meanwhile, two records with that username exist
\* afterwards.
C15_RegisterCheckIsNotAtomic ==
    [][\A c \in Clients :
          (pending[c].pc = "queried" /\ pending'[c].pc = "idle")
             => /\ resp'.op = "register" /\ resp'.status = StatusCreated
                /\ admins' = Append(admins, admins'[Len(admins')])
                /\ admins'[Len(admins')].username = pending[c].req.username
                /\ UsernameTaken(pending[c].req.username)
                      => Cardinality({i \in DOMAIN admins' :
                            admins'[i].username = pending[c].req.username}) >= 2]_vars

\* C15 witness: two records with the same username, both stored by register
\* calls answered 201, the second by Controller.Register.
C15_Witness ==
    /\ rev = "modular"
    /\ resp.op = "register" /\ resp.status = StatusCreated
    /\ \E i, j \in DOMAIN admins :
          /\ i # j /\ admins[i].username = admins[j].username
          /\ admins[i].id \in registered /\ admins[j].id \in registered
          /\ admins[j].username = resp.req.username


\* C16: every token a login issues has as subject the id of a stored admin
\* whose username is the request's and whose stored hash is that of the
\* request's password, and expires exactly 24 hours after it was issued; a
\* login of login (main.go:551) or Controller.Login answered 200 issues
\* exactly one such token.  (part_006 answers the literal "dummy_token", which
\* carries neither subject nor times and is not a token in this sense.)
C16_TokenNamesTheAdminAndLastsADay ==
    (resp.op = "login" /\ resp.status = StatusOK)
       => /\ rev \in {"paseto", "modular"} =>
                \E t \in resp.tokens : resp.tokens = {t} /\ t.kind = "paseto"
          /\ \A t \in resp.tokens :
                t.kind = "paseto"
                   => /\ \E i \in DOMAIN admins :
                            /\ admins[i].id = t.subject
                            /\ admins[i].username = resp.req.username
                            /\ CompareHashAndPassword(admins[i].password, resp.req.password)
                      /\ t.expiration - t.issuedAt = 24
                      /\ t.issuedAt \in Clock

\* C16 witness: Controller.Login issued a token at the later clock reading
\* for the second of two stored admins.
C16_Witness ==
    /\ rev = "modular"
    /\ resp.op = "login" /\ resp.status = StatusOK
    /\ Len(admins) = 2
    /\ \E t \in resp.tokens :
          t.subject = admins[2].id /\ t.issuedAt = 1 /\ t.expiration = 25


C18_StatsAreTheTotals ==
    [][\A c \in Clients :
          (/\ pending[c].pc \in {"products", "admins"} /\ pending'[c].pc = "idle"
           /\ \A i \in DOMAIN resp'.calls : resp'.calls[i] # "error"
           /\ \A i \in DOMAIN pending[c].seen :
                 pending[c].seen[i].db = <<products, admins>>)
             => /\ resp'.op = "getStats" /\ resp'.status = StatusOK
                /\ resp'.stats.total_products = Len(products)
                /\ resp'.stats.total_admins = Len(admins)
                /\ "total_value" \in resp'.stats.fields
                      => resp'.stats.total_value = Sum(products)]_vars

\* C19: the queries of a stats request are not one read.  The answer carries
\* the number of products stored when the first query ran, the number of
\* admins stored when the second ran and, in getStats of main.go:723 and of
\* part_006, the total value of the products stored when the third ran:
\* figures of up to three different states of the database.
C19_StatsQueriesAreNotAtomic ==
    [][\A c \in Clients :
          (pending[c].pc \in {"products", "admins"} /\ pending'[c].pc = "idle")
             => /\ resp'.op = "getStats" /\ resp'.status = StatusOK
                /\ resp'.stats.total_products = Len(pending[c].seen[1].db[1])
                /\ resp'.stats.total_admins =
                      IF pending[c].pc = "admins"
                      THEN Len(pending[c].seen[2].db[2]) ELSE Len(admins)
                /\ rev \in {"paseto", "draft"}
                      => resp'.stats.total_value = Sum(products)]_vars

\* C19 witness: getStats of main.go:723 answered that there are no products
\* and that their total value is 10: a product was created between its
\* first and its third query.
C19_Witness ==
    /\ rev = "paseto"
    /\ resp.op = "getStats" /\ resp.status = StatusOK
    /\ resp.stats.total_products = 0 /\ resp.stats.total_value = 10
    /\ Len(products) = 1

\* C20: a request one of whose database calls failed is answered with an
\* error status, never with a success body.  (Stated as the claim has it;
\* HealthCheck answers 200 to a failed ping, GetStats goes on with a count of
\* 0, Register takes a failed existence query for a free username.)
C20_FailedCallIsAnErrorResponse ==
    (\E i \in DOMAIN resp.calls : resp.calls[i] = "error")
       => resp.status \notin {StatusOK, StatusCreated}

\* C25: in the revisions that save an upload under "<unix time>_<file name>"
\* (uploadImage of the gin revision, uploadFile of part_006), an accepted
\* upload never writes to a path an earlier accepted upload was written to.
\* (Stated as the claim has it; time.Now().Unix() has a resolution of one
\* second, so two uploads of one file name within a second share their path.)
C25_AcceptedUploadsNeverShareAPath ==
    [][(/\ rev \in {"gin", "draft"}
        /\ resp'.op = "upload"
        /\ resp'.status \in {StatusOK, StatusCreated})
          => \A f \in files : \E g \in files' : g = f]_vars

\* C30: an upload request never creates, changes or deletes a document of the
\* products or the admins collection.  (Stated as the claim has it; uploadFile
\* of the paseto revision inserts the upload as a new product document.)
C30_UploadLeavesTheCollectionsAlone ==
    [][resp'.op = "upload" => (products' = products /\ admins' = admins)]_vars

\* C26: a request that creates an admin (POST /api/admins, POST /api/register)
\* with an empty or missing username or password is answered BadRequest and
\* leaves the admins collection as it was.  (Stated as the claim has it; the
\* createAdmin handlers that bind the Admin struct check neither field.)
C26_AdminWithoutCredentialsIsRejected ==
    [][(/\ resp'.op \in {"createAdmin", "register"}
        /\ (resp'.req.username = "" \/ resp'.req.password = ""))
          => (resp'.status = StatusBadRequest /\ admins' = admins)]_vars

\* C29: in the hand-rolled revision every stored product has a non-empty name
\* and a price greater than zero, whatever product requests were served.
\* (Stated as the claim has it; updateProduct sets whatever the body carries.)
C29_StoredProductsKeepNameAndPrice ==
    rev = "pure" =>
        \A i \in DOMAIN products : products[i].name # "" /\ products[i].price > 0

\* C22: updateProduct of main-pure.go, for a well-formed id, answers BadRequest
\* to an empty body and changes nothing; when it answers 200 the product with
\* that id has every field the body names at the value the body gives, every
\* other field of it is as before, and every other product is as before.
C22_MapUpdateSetsOnlyTheNamedFields ==
    [][(/\ rev = "pure"
        /\ resp'.op = "updateProduct"
        /\ ~ ObjectIDFromHex(resp'.req.id).err)
          => LET body == resp'.req.body
             IN /\ body.keys = {} =>
                      (resp'.status = StatusBadRequest /\ products' = products)
                /\ resp'.status = StatusNotFound => products' = products
                /\ (body.keys # {} /\ resp'.status = StatusOK) =>
                      /\ DOMAIN products' = DOMAIN products
                      /\ \E i \in DOMAIN products : products[i].id = resp'.req.id
                      /\ \A i \in DOMAIN products :
                            IF products[i].id # resp'.req.id
                            THEN products'[i] = products[i]
                            ELSE /\ products'[i].id = products[i].id
                                 /\ \A f \in body.keys :
                                       /\ f \in products'[i].keys
                                       /\ products'[i][f] = body[f]
                                 /\ \A f \in EveryKey(body) \ body.keys :
                                       /\ f \in products'[i].keys <=> f \in products[i].keys
                                       /\ products'[i][f] = products[i][f]]_vars

\* C22 witness: updateProduct of main-pure.go answered 200 for a body naming
\* only the name, with two products stored: the one updated has the new name
\* and still its price, the other one is a different product.
C22_Witness ==
    /\ rev = "pure"
    /\ resp.op = "updateProduct" /\ resp.status = StatusOK
    /\ resp.req.body.keys = {"name"}
    /\ Len(products) = 2
    /\ \E i \in DOMAIN products :
          /\ products[i].id = resp.req.id
          /\ products[i].name = resp.req.body.name
          /\ products[i].price > 0
    /\ \E j \in DOMAIN products :
          products[j].id # resp.req.id /\ products[j].name # resp.req.body.name

\* C28: an update that answers 200 leaves created_at of the product as its
\* create set it.  (Stated as the claim has it; the struct-binding revisions
\* $set the whole bound struct, created_at included, and the body gives none.)
C28_UpdateKeepsCreatedAt ==
    [][(resp'.op = "updateProduct" /\ resp'.status = StatusOK)
          => \A i \in DOMAIN products :
                products[i].id = resp'.req.id
                   => /\ products'[i].created_at = products[i].created_at
                      /\ "created_at" \in products'[i].keys <=>
                            "created_at" \in products[i].keys]_vars

C24_ImageIsUploadedBeforeTheWrite ==
    [][/\ (/\ rev \in ImageRevs /\ cld
           /\ \/ resp'.op = "createProduct" /\ resp'.req.image_base64 # ""
              \/ /\ resp'.op = "updateProduct"
                 /\ ~ ObjectIDFromHex(resp'.req.id).err
                 /\ resp'.req.body.image_base64 # "")
          => /\ Head(resp'.calls) = "Upload"
             /\ \A k \in DOMAIN resp'.calls :
                   resp'.calls[k] \in {"InsertOne", "UpdateOne"} => k > 1
             /\ (Len(resp'.calls) > 1 /\ resp'.calls[2] = "error")
                   => /\ resp'.status = StatusInternalServerError
                      /\ resp'.calls = <<"Upload", "error">>
                      /\ products' = products
       /\ rev \in ImageRevs
             => \A i \in DOMAIN products' :
                   /\ "image_base64" \notin products'[i].keys
                   /\ products'[i].image_base64 = ""
                   /\ products'[i].image_url \notin (Payloads \ {""})]_vars

\* C24 witness: Controller.UpdateProduct, with a host configured, answered
\* InternalError after a failed upload and issued no database call, while the
\* stored product holds the URL an earlier successful upload returned.
C24_Witness ==
    /\ rev = "modular" /\ cld
    /\ resp.op = "updateProduct" /\ resp.status = StatusInternalServerError
    /\ resp.calls = <<"Upload", "error">>
    /\ resp.req.body.image_base64 = "img"
    /\ \E i \in DOMAIN products :
          /\ products[i].id = resp.req.id
          /\ products[i].image_url = "https://res.cloudinary.com/img"
          /\ "image_url" \in products[i].keys

\* The endpoint table of the README: the methods listed for each path, under
\* the pattern that serves it ("/api/products/" serves /api/products/{id},
\* "/static/" serves /static/uploads/{file}).
EndpointTable ==
    [route \in Routes |->
        CASE route = "/api/health" -> {"GET"}
          [] route = "/api/products" -> {"GET", "POST"}
          [] route = "/api/products/" -> {"GET", "PUT", "DELETE"}
          [] route = "/api/admins" -> {"GET", "POST"}
          [] route = "/api/admins/" -> {"DELETE"}
          [] route = "/api/register" -> {"POST"}
          [] route = "/api/login" -> {"GET", "POST"}
          [] route = "/api/upload" -> {"POST"}
          [] route = "/api/stats" -> {"GET"}
          [] route = "/static/" -> {"GET"}]

Unlisted(route, m) == m # "OPTIONS" /\ m \notin EndpointTable[route]

\* The path of the request is one the table has: /api/products/{id} names an id.
PathInTable(route, in) == route = "/api/products/" => in.id # EmptyPath

\* The response records no database call, and the step left the collections
\* and the files as they were.
NothingDone ==
    /\ resp'.calls = <<>>
    /\ UNCHANGED <<products, admins, files, nextPid, nextAid>>

\* What the router runs for every request: its own 405 answer for a method
\* the table does not list, the CORS wrapper's answer for OPTIONS.
RouterFollowsTable ==
    \A route \in Routes, m \in Methods : \A in \in Inputs(route) :
        /\ (Unlisted(route, m) /\ PathInTable(route, in))
              => Handler(route, m, in) = "MethodNotAllowed"
        /\ m = "OPTIONS" => Handler(route, m, in) = "corsHandler"

\* C27: in the hand-rolled router revision, a request whose method is not
\* listed for its path in the endpoint table is answered MethodNotAllowed and
\* performs no database or file operation, and an OPTIONS request to any route
\* is answered 200 by the CORS wrapper without the route's handler being
\* invoked.
C27_UnlistedMethodsAreNotAllowed ==
    [][/\ RouterFollowsTable
       /\ resp'.op = "MethodNotAllowed" =>
             (resp'.status = StatusMethodNotAllowed /\ NothingDone)
       /\ resp'.op = "corsHandler" => (resp'.status = StatusOK /\ NothingDone)]_vars

\* A POST to /api/products/{id} was answered 405 while a product and an upload
\* were stored.
C27_Witness ==
    /\ rev = "pure"
    /\ resp.op = "MethodNotAllowed"
    /\ resp.status = StatusMethodNotAllowed
    /\ resp.req = [route |-> "/api/products/", method |-> "POST"]
    /\ Len(products) > 0
    /\ files # {}

\* C21 as stated: every request to the static handler whose path contains ".."
\* is answered BadRequest and serves nothing.  (A method other than GET is
\* answered MethodNotAllowed before the path is looked at.)
C21_DotDotIsAlwaysBadRequest ==
    [][(resp'.op = "static" /\ resp'.req.path \in DotDotPaths)
          => (resp'.status = StatusBadRequest /\ resp'.req.file = <<>>)]_vars

\* C21, amended: the static handler never serves a path containing "..": a
\* GET for one is answered BadRequest, any other method MethodNotAllowed, and
\* no file is served; every file the handler serves lies under the static
\* directory and is on disk.
C21_DotDotIsNeverServed ==
    [][resp'.op = "static" =>
          /\ resp'.req.path \in DotDotPaths =>
                /\ resp'.req.file = <<>>
                /\ resp'.status = IF resp'.req.method = "GET"
                                  THEN StatusBadRequest ELSE StatusMethodNotAllowed
          /\ resp'.status = StatusOK =>
                /\ resp'.req.file # <<>>
                /\ Head(resp'.req.file) = <<"static">>
                /\ \A i \in DOMAIN resp'.req.file : resp'.req.file[i] # <<".", ".">>
                /\ resp'.req.file \in OnDisk]_vars

\* A GET for uploads/../uploads/a.png was answered 400 while a.png was among
\* the uploads.
C21_Witness ==
    /\ rev = "pure"
    /\ resp.op = "static"
    /\ resp.req.method = "GET"
    /\ resp.req.path = <<"uploads", "/", ".", ".", "/", "uploads", "/", "a", ".", "p", "n", "g">>
    /\ resp.status = StatusBadRequest
    /\ \E f \in files : f.path = <<UploadDir, <<"a", ".", "p", "n", "g">>>>

=============================================================================
